---- MODULE Spec2Model ----
(***************************************************************************)
(* A model of the marimo notebook handler of the viz skill                 *)
(* (src/viz/skills/scripts/marimo_handler.py): dependency resolution,      *)
(* import deduplication and notebook assembly.                             *)
(*                                                                         *)
(* Text is modelled as a sequence of lexical tokens (strings); white space *)
(* and the line terminator "\n" are tokens of their own, so that the       *)
(* line-based and regex-based code has something to work on.  Cell indices *)
(* are 0-based as in the source; TLA+ sequences are 1-based, so the cell   *)
(* at index i is parsed.cells[i + 1].                                      *)
(***************************************************************************)
EXTENDS Integers, Sequences, FiniteSets, TLC

VARIABLES
    pc,                 \* position of the call being modelled
    parsed,             \* ParsedNotebook
    target_vars,        \* list of target variable names
    var_to_cell,        \* get_required_cells: dict name -> cell index
    function_names,     \* get_required_cells: set of @app.function names
    queue,              \* get_required_cells: the worklist (a Python list used as a stack)
    visited_vars,       \* get_required_cells: set of names already processed
    required_indices,   \* get_required_cells: set of cell indices
    required_functions, \* get_required_cells: set of function names
    resolved,           \* the tuple returned by get_required_cells
    prep,               \* the value returned by prepare_notebook
    processed,          \* history: how often each name passed the visited check
    action_code,        \* the caller's code (plot_code)
    target_line,        \* optional line of the snapshot: <<>> or <<n>>
    setup_imports,      \* strip_imports_from_action_code: the setup block's name map
    stripped,           \* the value returned by strip_imports_from_action_code
    restripped,         \* the value returned by a second call on that result
    parts,              \* assemble_pruned_notebook: the list of emitted parts
    script,             \* the document text returned by assemble_pruned_notebook
    error,              \* the ValueError raised by build_script, if any
    cell_code,          \* inject_snapshot: the cell's code
    snap_var,           \* inject_snapshot: target_var
    snap_line,          \* inject_snapshot: target_line
    cell_start_line,    \* inject_snapshot: the line the cell starts at
    injected,           \* the value returned by inject_snapshot
    source_path,        \* build_script / prepare_notebook: the notebook's path, or None
    target_arg,         \* build_script: the argument target_var, or None
    disk,               \* the notebooks on disk: path -> document
    result,             \* the tuple returned by build_script
    call_no,            \* which build_script call of the caller is running (0: none)
    first_outcome,      \* the caller's record of how its first call ended
    args,               \* the argparse.Namespace: attribute name -> value
    valid,              \* the tuple returned by validate_args
    cell_source,        \* _parse_cell: the source text of the decorated function
    parsed_cell,        \* the MarimoCell returned by _parse_cell
    environ,            \* os.environ: variable name -> text
    cwd_arg,            \* get_python_command: the argument cwd (<<>> when None, else <<path>>)
    working_envs,       \* the commands whose interpreter can import matplotlib
    python_cmd,         \* the command returned by get_python_command
    suggested_id,       \* args.suggested_id (NoneText when --id is not given)
    final_id,           \* the ID returned by get_unique_id
    viz_dir,            \* the names of the files in VIZ_DIR
    scripts,            \* the IDs whose script run_plot has written, in order
    flags,              \* main: the switches given among --clean, --list, --show
    stdin,              \* main: the standard input (isatty, text)
    stderr,             \* main: what was printed to the standard error
    exit_code,          \* main: the argument of sys.exit (<<>> before the exit)
    handled,            \* main: the handler the invocation was given to
    fallback_chain,     \* run_plot: the commands to try, in order
    attempt,            \* run_plot: the position in the chain of the command under way
    tried,              \* run_plot: the commands started so far, each with how its poll ended
    proc,               \* the subprocess: its state, exit status and standard error
    png_exists,         \* whether the PNG is on the disk
    waited,             \* poll_for_file: the rounds slept so far
    poll_result,        \* the PollResult of the poll under way or last ended
    run_result,         \* what run_plot returns (success, message)
    metadata_writes,    \* how many times the metadata file was written
    notebook_lines,     \* parse_marimo_notebook: source_lines, the lines of the file
    tree,               \* parse_marimo_notebook: the top-level nodes of ast.parse(source)
    node_no,            \* parse_marimo_notebook: how many nodes the loop has handled
    setup_start,        \* parse_marimo_notebook: setup_start (<<>> when None)
    invocation_pc,      \* concurrent invocations of the runner: the position of each
    invocation_id,      \* concurrent invocations of the runner: the final_id of each
    scribe_dir,         \* scribe: the .scribe directory (whether it exists, staging files, logs)
    gitignore,          \* scribe: the lines of .gitignore
    scribe_last,        \* scribe: what was done last: the command and the status it ended with
    scribe_before       \* history: the directory and .gitignore when that command began

resolverVars == <<var_to_cell, function_names, queue, visited_vars, required_indices,
                  required_functions, resolved, processed>>

stripVars == <<setup_imports, stripped, restripped>>

outVars == <<parts, script, error>>

snapVars == <<cell_code, snap_var, snap_line, cell_start_line, injected>>

\* the state of the calls modelled on their own, other than the three above
buildVars == <<source_path, target_arg, disk, result, call_no, first_outcome>>

cliVars == <<args, valid>>

parseVars == <<cell_source, parsed_cell>>

pythonVars == <<environ, cwd_arg, working_envs, python_cmd>>

idVars == <<suggested_id, final_id, viz_dir, scripts>>

mainVars == <<flags, stdin, stderr, exit_code, handled>>

runVars == <<fallback_chain, attempt, tried, proc, png_exists, waited, poll_result, run_result,
             metadata_writes>>

notebookVars == <<notebook_lines, tree, node_no, setup_start>>

raceVars == <<invocation_pc, invocation_id>>

scribeVars == <<scribe_dir, gitignore, scribe_last, scribe_before>>

laterVars == <<notebookVars, raceVars, scribeVars>>

toolVars == <<pythonVars, idVars, mainVars, runVars, laterVars>>

otherCalls == <<snapVars, buildVars, cliVars, parseVars, toolVars>>

vars == <<pc, parsed, target_vars, otherCalls, resolverVars, prep, action_code, target_line,
          stripVars, outVars>>

-----------------------------------------------------------------------------
(* Bounds of the model *)

MaxCells == 3

MaxTargets == 2

MaxCount == 2

-----------------------------------------------------------------------------
(* Generic helpers *)

Range(s) == {s[i] : i \in DOMAIN s}

Min(S) == CHOOSE x \in S : \A y \in S : x <= y

SeqsUpTo(S, n) == UNION {[1..k -> S] : k \in 0..n}

NoDup(s) == \A i, j \in DOMAIN s : i # j => s[i] # s[j]

NoneVal == "<None>"

\* The value None of an attribute that holds a text
NoneText == <<NoneVal>>

EmptyMap == [x \in {} |-> 0]

-----------------------------------------------------------------------------
(* Text: sequences of lexical tokens *)

NL == "\n"

IND == "    "

\* Identifier tokens that contain a given function name as a substring
\* (Python's `name in text` is a substring test on characters).
TextuallyContains(tok, name) ==
    \/ tok = name
    \/ <<tok, name>> \in {<<"helper2", "helper">>, <<"my_helper", "helper">>}

\* `name in text` for a text of tokens.
NameInText(name, text) == \E i \in DOMAIN text : TextuallyContains(text[i], name)

\* s with sep between consecutive elements
RECURSIVE JoinWith(_, _)
JoinWith(s, sep) ==
    IF Len(s) = 0 THEN <<>>
    ELSE IF Len(s) = 1 THEN <<s[1]>>
    ELSE <<s[1]>> \o sep \o JoinWith(Tail(s), sep)

\* White-space tokens (str.strip and \s remove or match them).
IsSpace(tok) == tok \in {" ", IND, NL}

\* Tokens that are not part of an identifier (\w+ does not match them).
IsWord(tok) == tok \notin {" ", IND, NL, ",", "(", ")", ".", ";", "#", "*", ":", "="}

\* str.splitlines(keepends=True)
RECURSIVE SplitFrom(_, _, _)
SplitFrom(text, i, cur) ==
    IF i > Len(text) THEN (IF cur = <<>> THEN <<>> ELSE <<cur>>)
    ELSE IF text[i] = NL THEN <<Append(cur, NL)>> \o SplitFrom(text, i + 1, <<>>)
    ELSE SplitFrom(text, i + 1, Append(cur, text[i]))

SplitLines(text) == SplitFrom(text, 1, <<>>)

\* "".join(lines)
RECURSIVE JoinLines(_)
JoinLines(lines) ==
    IF lines = <<>> THEN <<>> ELSE Head(lines) \o JoinLines(Tail(lines))

\* str.lstrip / str.rstrip / str.strip
RECURSIVE LStrip(_)
LStrip(l) == IF l # <<>> /\ IsSpace(Head(l)) THEN LStrip(Tail(l)) ELSE l

RECURSIVE RStrip(_)
RStrip(l) ==
    IF l # <<>> /\ IsSpace(l[Len(l)]) THEN RStrip(SubSeq(l, 1, Len(l) - 1)) ELSE l

StripWs(l) == RStrip(LStrip(l))

\* The first position at or after i that holds no white space (Len + 1 if none).
RECURSIVE SkipSpaces(_, _)
SkipSpaces(l, i) ==
    IF i <= Len(l) /\ IsSpace(l[i]) THEN SkipSpaces(l, i + 1) ELSE i

\* str.split(","): the pieces between the commas
RECURSIVE SplitCommaFrom(_, _, _)
SplitCommaFrom(l, i, cur) ==
    IF i > Len(l) THEN <<cur>>
    ELSE IF l[i] = "," THEN <<cur>> \o SplitCommaFrom(l, i + 1, <<>>)
    ELSE SplitCommaFrom(l, i + 1, Append(cur, l[i]))

SplitComma(l) == SplitCommaFrom(l, 1, <<>>)

-----------------------------------------------------------------------------
(* Paths: a pathlib.Path is the sequence of its parts, Path(".") having none *)

\* Path.parent
Parent(path) == IF path = <<>> THEN <<>> ELSE SubSeq(path, 1, Len(path) - 1)

NotebookPath == <<"work", "analysis.nb.py">>

LocalPath == <<"analysis.nb.py">>

MissingPath == <<"work", "gone.nb.py">>

\* A path given as a string is the sequence of its names and separators.
\* Path(text): the separators and the "." components are dropped.
PathOf(text) == SelectSeq(text, LAMBDA t : t \notin {"/", "."})

\* str(path)
RECURSIVE PathText(_)
PathText(path) ==
    IF path = <<>> THEN <<".">>
    ELSE IF Len(path) = 1 THEN path
    ELSE <<Head(path), "/">> \o PathText(Tail(path))

\* Path.exists(), when os.stat does not fail for another reason than the
\* path's absence: a file of the disk, or a directory leading to one
Exists(path, d) ==
    \E f \in DOMAIN d : Len(path) <= Len(f) /\ SubSeq(f, 1, Len(path)) = path

\* A file name longer than the file system allows (300 characters, say)
LongName == "<name of 300 characters>"

\* os.stat fails with ENAMETOOLONG, which Path.exists() re-raises in the
\* interpreters up to 3.12 and turns into False in later ones
StatFails(path) == \E i \in DOMAIN path : path[i] = LongName

-----------------------------------------------------------------------------
(* Documents the resolver is run on *)

VarNames == {"a", "b", "c"}

FuncName == "helper"

\* Source text of a cell with the given parameters and returned tuple.
CellSource(refs, defs, body) ==
    <<"@app.cell", NL, "def", " ", "_", "(">> \o JoinWith(refs, <<",", " ">>)
        \o <<")", ":", NL>> \o <<IND>> \o body \o <<NL>>
        \o <<IND, "return">>
        \o (IF defs = <<>> THEN <<>>
            ELSE <<" ", "(">> \o JoinWith(defs, <<",", " ">>) \o <<",", ")">>)
        \o <<NL>>

MarimoCell(refs, defs, body, start) ==
    [name |-> "_", refs |-> refs, defs |-> defs,
     code |-> CellSource(refs, defs, body),
     start_line |-> start, end_line |-> start + 3]

MarimoFunction(name, start) ==
    [name |-> name, code |-> <<"@app.function", NL, "def", " ", name, "(", ")", ":", NL,
                               IND, "return", " ", "1", NL>>,
     start_line |-> start, end_line |-> start + 2]

Pass == <<"pass">>

CallHelper == <<"a", " ", "=", " ", "helper", "(", ")">>

\* The cells the documents are built from: sources, a chain step in both
\* directions (two of them form a cycle), a branch, a cell with two outputs,
\* a self-reference, a cell without outputs.
CellShapes ==
    { [refs |-> <<>>,         defs |-> <<"a">>,      body |-> CallHelper],
      [refs |-> <<>>,         defs |-> <<"a", "b">>, body |-> Pass],
      [refs |-> <<"a">>,      defs |-> <<"b">>,      body |-> Pass],
      [refs |-> <<"b">>,      defs |-> <<"a">>,      body |-> Pass],
      [refs |-> <<"a", "b">>, defs |-> <<"c">>,      body |-> Pass],
      [refs |-> <<"c">>,      defs |-> <<"a">>,      body |-> Pass],
      [refs |-> <<"c">>,      defs |-> <<"c", "c">>, body |-> Pass],
      [refs |-> <<"b">>,      defs |-> <<>>,         body |-> CallHelper] }

\* A document with the given cells, laid out one after another.
ResolverDoc(shapes, funcs) ==
    [preamble |-> <<"import", " ", "marimo", NL>>,
     setup_code |-> <<>>,
     functions |-> [i \in DOMAIN funcs |-> MarimoFunction(funcs[i], 2 + 3 * (i - 1))],
     classes |-> <<>>,
     cells |-> [i \in DOMAIN shapes |->
                  MarimoCell(shapes[i].refs, shapes[i].defs, shapes[i].body,
                             2 + 3 * Len(funcs) + 4 * (i - 1))],
     main_block |-> <<>>]

ResolverDocs == {ResolverDoc(sh, <<FuncName>>) : sh \in SeqsUpTo(CellShapes, MaxCells)}

\* Target lists; a name may be requested twice.
TargetLists == SeqsUpTo(VarNames, MaxTargets)

-----------------------------------------------------------------------------
(* get_required_cells *)

\* A variant: the first cell defining a name keeps it
AssignVarFirstWins(map, var, i) ==
    [v \in DOMAIN map \cup {var} |-> IF v \in DOMAIN map THEN map[v] ELSE i]

\* var_to_cell[var] = i
AssignVar(map, var, i) ==
    [v \in DOMAIN map \cup {var} |-> IF v = var THEN i ELSE map[v]]

\* for var in cell.defs: var_to_cell[var] = i
RECURSIVE AssignDefs(_, _, _)
AssignDefs(map, defs, i) ==
    IF defs = <<>> THEN map
    ELSE AssignDefs(AssignVar(map, Head(defs), i), Tail(defs), i)

\* for i, cell in enumerate(parsed.cells): ... ; n cells have been enumerated
RECURSIVE BuildVarToCell(_, _)
BuildVarToCell(cells, n) ==
    IF n = 0 THEN EmptyMap
    ELSE AssignDefs(BuildVarToCell(cells, n - 1), cells[n].defs, n - 1)

\* {f.name for f in parsed.functions}
FunctionNames(functions) == {functions[i].name : i \in DOMAIN functions}

\* A variant: the name is not recorded as visited
MarkVisitedForgets(visited, var) == visited

\* visited_vars.add(var)
MarkVisited(visited, var) == visited \cup {var}

\* A variant: only the first reference of the cell is followed
EnqueueFirstRefOnly(q, refs, visited) ==
    IF refs # <<>> /\ Head(refs) \notin visited THEN Append(q, Head(refs)) ELSE q

\* for ref in cell.refs: if ref not in visited_vars: queue.append(ref)
RECURSIVE EnqueueRefs(_, _, _)
EnqueueRefs(q, refs, visited) ==
    IF refs = <<>> THEN q
    ELSE EnqueueRefs(IF Head(refs) \notin visited THEN Append(q, Head(refs)) ELSE q,
                     Tail(refs), visited)

\* A variant: the indices are returned in descending order
RECURSIVE SortIndicesDescending(_)
SortIndicesDescending(S) ==
    IF S = {} THEN <<>>
    ELSE LET m == CHOOSE x \in S : \A y \in S : y <= x
         IN <<m>> \o SortIndicesDescending(S \ {m})

\* sorted(required_indices)
RECURSIVE SortIndices(_)
SortIndices(S) ==
    IF S = {} THEN <<>> ELSE <<Min(S)>> \o SortIndices(S \ {Min(S)})

\* A variant: the textual pass reads every cell
ScanEveryCell(cells, indices, fnames) ==
    {f \in fnames : \E i \in DOMAIN cells : NameInText(f, cells[i].code)}

\* for idx in list(required_indices): for func_name in function_names:
\*     if func_name in cell.code: required_functions.add(func_name)
ScanCellCode(cells, indices, fnames) ==
    {f \in fnames : \E idx \in indices : NameInText(f, cells[idx + 1].code)}

Bump(count, var) ==
    [count EXCEPT ![var] = IF @ < MaxCount THEN @ + 1 ELSE @]

\* A variant in which visited_vars outlives the call
GetRequiredCellsBeginKeepsVisited ==
    /\ pc = "call"
    /\ var_to_cell' = BuildVarToCell(parsed.cells, Len(parsed.cells))
    /\ function_names' = FunctionNames(parsed.functions)
    /\ required_indices' = {}
    /\ required_functions' = {}
    /\ queue' = target_vars
    /\ UNCHANGED visited_vars
    /\ pc' = "loop"
    /\ UNCHANGED <<parsed, target_vars, otherCalls, resolved, prep, processed, action_code,
                   target_line, stripVars, outVars>>

\* lines 287-300: the maps and the initial worklist
GetRequiredCellsBegin ==
    /\ pc = "call"
    /\ var_to_cell' = BuildVarToCell(parsed.cells, Len(parsed.cells))
    /\ function_names' = FunctionNames(parsed.functions)
    /\ required_indices' = {}
    /\ required_functions' = {}
    /\ queue' = target_vars
    /\ visited_vars' = {}
    /\ pc' = "loop"
    /\ UNCHANGED <<parsed, target_vars, otherCalls, resolved, prep, processed, action_code,
                   target_line, stripVars, outVars>>

\* lines 302-305: var = queue.pop(); if var in visited_vars: continue
SkipVisited ==
    /\ pc = "loop"
    /\ queue # <<>>
    /\ queue[Len(queue)] \in visited_vars
    /\ queue' = SubSeq(queue, 1, Len(queue) - 1)
    /\ UNCHANGED <<pc, parsed, target_vars, otherCalls, var_to_cell, function_names, visited_vars,
                   required_indices, required_functions, resolved, prep, processed,
                   action_code, target_line, stripVars, outVars>>

\* lines 302-320: one iteration of the loop on a name not yet visited
Visit ==
    /\ pc = "loop"
    /\ queue # <<>>
    /\ LET var == queue[Len(queue)]
           rest == SubSeq(queue, 1, Len(queue) - 1)
           visited == MarkVisited(visited_vars, var)
       IN /\ var \notin visited_vars
          /\ visited_vars' = visited
          /\ processed' = Bump(processed, var)
          /\ IF var \in DOMAIN var_to_cell
             THEN /\ required_indices' = required_indices \cup {var_to_cell[var]}
                  /\ queue' = EnqueueRefs(rest, parsed.cells[var_to_cell[var] + 1].refs,
                                          visited)
             ELSE /\ required_indices' = required_indices
                  /\ queue' = rest
          /\ required_functions' =
                 IF var \in function_names THEN required_functions \cup {var}
                 ELSE required_functions
    /\ UNCHANGED <<pc, parsed, target_vars, otherCalls, var_to_cell, function_names, resolved, prep,
                   action_code, target_line, stripVars, outVars>>

\* lines 322-329: the textual pass over the required cells, and the return
GetRequiredCellsReturn ==
    /\ pc = "loop"
    /\ queue = <<>>
    /\ LET funcs == required_functions
                      \cup ScanCellCode(parsed.cells, required_indices, function_names)
       IN /\ required_functions' = funcs
          /\ resolved' = [indices |-> SortIndices(required_indices), functions |-> funcs]
    /\ pc' = "resolved"
    /\ UNCHANGED <<parsed, target_vars, otherCalls, var_to_cell, function_names, queue, visited_vars,
                   required_indices, prep, processed, action_code, target_line,
                   stripVars, outVars>>

-----------------------------------------------------------------------------
(* prepare_notebook *)

\* A variant: a single required cell is treated as none
NoCellsFoundBelowTwo(indices) == Len(indices) < 2

\* if not required_indices
NoCellsFound(indices) == indices = <<>>

\* f"Could not find cells defining: {target_vars}"
NotFoundMessage(targets) == [text |-> "Could not find cells defining: ", names |-> targets]

\* lines 263-272
PrepareNotebookReturn ==
    /\ pc = "resolved"
    /\ IF NoCellsFound(resolved.indices)
       THEN /\ prep' = [ok |-> FALSE, message |-> NotFoundMessage(target_vars)]
            /\ pc' = "failed"
       ELSE /\ prep' = [ok |-> TRUE,
                        parsed |-> parsed,
                        required_indices |-> resolved.indices,
                        required_functions |-> resolved.functions,
                        target_var |-> IF target_vars # <<>> THEN target_vars[1] ELSE NoneVal,
                        cwd |-> Parent(source_path)]
            /\ pc' = "prepared"
    /\ UNCHANGED <<parsed, target_vars, otherCalls, resolverVars, action_code, target_line,
                   stripVars, outVars>>

-----------------------------------------------------------------------------
(* Python's own reading of one physical line, as ast.parse sees it.  Only  *)
(* single-line simple statements are modelled: import statements, and any  *)
(* other token sequence as an expression statement.                         *)

NoItems == <<>>

RECURSIVE CommentStart(_, _)
CommentStart(l, i) ==
    IF i > Len(l) THEN i ELSE IF l[i] = "#" THEN i ELSE CommentStart(l, i + 1)

\* The line without its trailing comment and surrounding white space.
Uncomment(l) == StripWs(SubSeq(l, 1, CommentStart(l, 1) - 1))

\* End of the dotted name starting at i (0 when there is none).
RECURSIVE DottedEnd(_, _)
DottedEnd(p, i) ==
    IF i > Len(p) \/ ~IsWord(p[i]) THEN 0
    ELSE IF i + 1 <= Len(p) /\ p[i + 1] = "." THEN DottedEnd(p, i + 2)
    ELSE i

\* The text of a dotted name, e.g. "os.path"
RECURSIVE DottedText(_)
DottedText(p) ==
    IF Len(p) = 1 THEN p[1] ELSE p[1] \o DottedText(Tail(p))

\* One `name [as alias]` item; dotted names only where Python allows them.
ParseAlias(part, dotted) ==
    LET p == StripWs(part)
        e == DottedEnd(p, 1)
    IN IF e = 0 \/ (~dotted /\ e # 1) THEN [ok |-> FALSE, name |-> "", asname |-> ""]
       ELSE IF e = Len(p) THEN [ok |-> TRUE, name |-> DottedText(SubSeq(p, 1, e)), asname |-> ""]
       ELSE LET k == SkipSpaces(p, e + 1)
                m == SkipSpaces(p, k + 1)
            IN IF /\ IsSpace(p[e + 1]) /\ k <= Len(p) /\ p[k] = "as"
                  /\ k + 1 <= Len(p) /\ IsSpace(p[k + 1])
                  /\ m = Len(p) /\ IsWord(p[m])
               THEN [ok |-> TRUE, name |-> DottedText(SubSeq(p, 1, e)), asname |-> p[m]]
               ELSE [ok |-> FALSE, name |-> "", asname |-> ""]

ParseAliases(rest, dotted) ==
    LET pieces == SplitComma(rest)
        items == [i \in DOMAIN pieces |-> ParseAlias(pieces[i], dotted)]
    IN IF \A i \in DOMAIN items : items[i].ok
       THEN [ok |-> TRUE, items |-> items] ELSE [ok |-> FALSE, items |-> NoItems]

\* End of the run of name and dot tokens starting at j (j - 1 when empty).
RECURSIVE ModuleEnd(_, _)
ModuleEnd(l, j) ==
    IF j <= Len(l) /\ (IsWord(l[j]) \/ l[j] = ".") THEN ModuleEnd(l, j + 1) ELSE j - 1

\* [kind, module, items]: kind is "import", "from", "other", "blank" or "error"
PyParseLine(line) ==
    LET l == Uncomment(line)
        node(k, mod, items) == [kind |-> k, module |-> mod, items |-> items]
    IN IF l = <<>> THEN node("blank", "", NoItems)
       ELSE IF l[1] = "import" THEN
            LET j == SkipSpaces(l, 2)
                r == ParseAliases(SubSeq(l, j, Len(l)), TRUE)
            IN IF Len(l) >= 3 /\ IsSpace(l[2]) /\ r.ok
               THEN node("import", "", r.items) ELSE node("error", "", NoItems)
       ELSE IF l[1] = "from" THEN
            LET j == SkipSpaces(l, 2)
                e == ModuleEnd(l, j)
                k == SkipSpaces(l, e + 1)
                m == SkipSpaces(l, k + 1)
                rest == SubSeq(l, m, Len(l))
                inner == IF rest # <<>> /\ rest[1] = "(" /\ rest[Len(rest)] = ")"
                         THEN SubSeq(rest, 2, Len(rest) - 1) ELSE rest
                r == ParseAliases(inner, FALSE)
            IN IF /\ Len(l) >= 2 /\ IsSpace(l[2]) /\ e >= j
                  /\ e + 1 <= Len(l) /\ IsSpace(l[e + 1])
                  /\ k <= Len(l) /\ l[k] = "import"
                  /\ k + 1 <= Len(l) /\ IsSpace(l[k + 1]) /\ m <= Len(l)
                  /\ r.ok
               THEN node("from", DottedText(SelectSeq(SubSeq(l, j, e), IsWord)), r.items)
               ELSE node("error", "", NoItems)
       ELSE node("other", "", NoItems)

\* Leading white space of a line
RECURSIVE LeadingWs(_)
LeadingWs(l) ==
    IF l # <<>> /\ IsSpace(Head(l)) /\ Head(l) # NL THEN <<Head(l)>> \o LeadingWs(Tail(l))
    ELSE <<>>

IsBlankLine(l) == StripWs(l) = <<>>

RECURSIVE CommonPrefix(_, _)
CommonPrefix(x, y) ==
    IF x # <<>> /\ y # <<>> /\ Head(x) = Head(y)
    THEN <<Head(x)>> \o CommonPrefix(Tail(x), Tail(y)) ELSE <<>>

\* the margin textwrap.dedent removes: the common leading white space of the
\* lines that are not blank
RECURSIVE Margin(_)
Margin(lines) ==
    IF lines = <<>> THEN <<>>
    ELSE IF Len(lines) = 1 THEN LeadingWs(lines[1])
    ELSE CommonPrefix(LeadingWs(lines[1]), Margin(Tail(lines)))

\* textwrap.dedent, as a list of lines
Dedent(text) ==
    LET lines == SplitLines(text)
        solid == SelectSeq(lines, LAMBDA l : ~IsBlankLine(l))
        n == Len(Margin(solid))
    IN [i \in DOMAIN lines |->
          IF IsBlankLine(lines[i]) THEN <<NL>> ELSE SubSeq(lines[i], n + 1, Len(lines[i]))]

\* ast.parse of a sequence of lines: a SyntaxError when a line does not parse
\* or is indented (no modelled statement opens a block)
PyParses(lines) ==
    \A i \in DOMAIN lines :
        \/ IsBlankLine(lines[i])
        \/ LeadingWs(lines[i]) = <<>> /\ PyParseLine(lines[i]).kind # "error"

-----------------------------------------------------------------------------
(* Import deduplication *)

\* imports[name] = statement, for the aliases of one import node (lines 356-365)
RECURSIVE AddAliases(_, _, _)
AddAliases(imports, node, i) ==
    IF i > Len(node.items) THEN imports
    ELSE LET alias == node.items[i]
             name == IF alias.asname # "" THEN alias.asname ELSE alias.name
             stmt == (IF node.kind = "import" THEN <<"import", " ", alias.name>>
                      ELSE <<"from", " ", node.module, " ", "import", " ", alias.name>>)
                     \o (IF alias.asname # "" THEN <<" ", "as", " ", alias.asname>>
                         ELSE <<>>)
         IN AddAliases([k \in DOMAIN imports \cup {name} |->
                           IF k = name THEN stmt ELSE imports[k]], node, i + 1)

\* for node in ast.walk(tree): ... (lines 355-365)
RECURSIVE WalkImports(_, _)
WalkImports(imports, lines) ==
    IF lines = <<>> THEN imports
    ELSE LET node == PyParseLine(Head(lines))
         IN WalkImports(IF node.kind \in {"import", "from"}
                        THEN AddAliases(imports, node, 1) ELSE imports, Tail(lines))

\* re.compile(r'^import\s+(\w+)(?:\s+as\s+(\w+))?', re.MULTILINE) on one line
RegexImportLine(l) ==
    LET j == SkipSpaces(l, 2)
        k == SkipSpaces(l, j + 1)
        m == SkipSpaces(l, k + 1)
    IN IF ~(Len(l) >= 3 /\ l[1] = "import" /\ IsSpace(l[2]) /\ l[2] # NL
            /\ j <= Len(l) /\ IsWord(l[j]))
       THEN <<>>
       ELSE IF /\ j + 1 <= Len(l) /\ IsSpace(l[j + 1]) /\ k <= Len(l) /\ l[k] = "as"
               /\ k + 1 <= Len(l) /\ IsSpace(l[k + 1]) /\ m <= Len(l) /\ IsWord(l[m])
            THEN <<l[m]>>
            ELSE <<l[j]>>

\* re.compile(r'^from\s+[\w.]+\s+import\s+(\w+)(?:\s+as\s+(\w+))?', re.MULTILINE)
RegexFromLine(l) ==
    LET j == SkipSpaces(l, 2)
        e == ModuleEnd(l, j)
        k == SkipSpaces(l, e + 1)
        n == SkipSpaces(l, k + 1)
        a == SkipSpaces(l, n + 1)
        m == SkipSpaces(l, a + 1)
    IN IF ~(/\ Len(l) >= 2 /\ l[1] = "from" /\ IsSpace(l[2]) /\ e >= j
            /\ e + 1 <= Len(l) /\ IsSpace(l[e + 1])
            /\ k <= Len(l) /\ l[k] = "import"
            /\ k + 1 <= Len(l) /\ IsSpace(l[k + 1])
            /\ n <= Len(l) /\ IsWord(l[n]))
       THEN <<>>
       ELSE IF /\ n + 1 <= Len(l) /\ IsSpace(l[n + 1]) /\ a <= Len(l) /\ l[a] = "as"
               /\ a + 1 <= Len(l) /\ IsSpace(l[a + 1]) /\ m <= Len(l) /\ IsWord(l[m])
            THEN <<l[m]>>
            ELSE <<l[n]>>

\* _extract_imports_regex (lines 370-388); the statement text is the line
RECURSIVE ExtractImportsRegex(_, _)
ExtractImportsRegex(imports, lines) ==
    IF lines = <<>> THEN imports
    ELSE LET l == Head(lines)
             names == RegexImportLine(l) \o RegexFromLine(l)
         IN ExtractImportsRegex(
                [k \in DOMAIN imports \cup Range(names) |->
                    IF k \in Range(names) THEN RStrip(l) ELSE imports[k]],
                Tail(lines))

NoImports == [k \in {} |-> <<>>]

\* extract_setup_imports (lines 337-367)
ExtractSetupImports(setup_code) ==
    LET dedented == Dedent(setup_code)
    IN IF PyParses(dedented) THEN WalkImports(NoImports, dedented)
       ELSE ExtractImportsRegex(NoImports, SplitLines(setup_code))

\* re.match(r'^import\s+(\w+)(?:\s+as\s+(\w+))?$', import_line)
MatchPlainImport(l) ==
    LET j == SkipSpaces(l, 2)
        k == SkipSpaces(l, j + 1)
        m == SkipSpaces(l, k + 1)
    IN IF ~(Len(l) >= 3 /\ l[1] = "import" /\ IsSpace(l[2]) /\ j <= Len(l) /\ IsWord(l[j]))
       THEN [matched |-> FALSE, names |-> <<>>]
       ELSE IF j = Len(l) THEN [matched |-> TRUE, names |-> <<l[j]>>]
       ELSE IF /\ IsSpace(l[j + 1]) /\ k <= Len(l) /\ l[k] = "as"
               /\ k + 1 <= Len(l) /\ IsSpace(l[k + 1]) /\ m = Len(l) /\ IsWord(l[m])
            THEN [matched |-> TRUE, names |-> <<l[m]>>]
            ELSE [matched |-> FALSE, names |-> <<>>]

\* re.match(r'^from\s+[\w.]+\s+import\s+(.+)$', import_line)
MatchFromImport(l) ==
    LET j == SkipSpaces(l, 2)
        e == ModuleEnd(l, j)
        k == SkipSpaces(l, e + 1)
        m == SkipSpaces(l, k + 1)
    IN IF /\ Len(l) >= 2 /\ l[1] = "from" /\ IsSpace(l[2]) /\ e >= j
          /\ e + 1 <= Len(l) /\ IsSpace(l[e + 1])
          /\ k <= Len(l) /\ l[k] = "import"
          /\ k + 1 <= Len(l) /\ IsSpace(l[k + 1]) /\ m <= Len(l)
       THEN [matched |-> TRUE, rest |-> SubSeq(l, m, Len(l))]
       ELSE [matched |-> FALSE, rest |-> <<>>]

\* re.match(r'(\w+)(?:\s+as\s+(\w+))?', part): the name the part binds, if any
AliasMatch(part) ==
    LET p == StripWs(part)
        k == SkipSpaces(p, 2)
        m == SkipSpaces(p, k + 1)
    IN IF p = <<>> \/ ~IsWord(p[1]) THEN <<>>
       ELSE IF /\ Len(p) >= 2 /\ IsSpace(p[2]) /\ k <= Len(p) /\ p[k] = "as"
               /\ k + 1 <= Len(p) /\ IsSpace(p[k + 1]) /\ m <= Len(p) /\ IsWord(p[m])
            THEN <<p[m]>>
            ELSE <<p[1]>>

RECURSIVE AliasNames(_)
AliasNames(pieces) ==
    IF pieces = <<>> THEN <<>> ELSE AliasMatch(Head(pieces)) \o AliasNames(Tail(pieces))

\* _extract_imported_names_from_line (lines 427-455)
ExtractImportedNamesFromLine(import_line) ==
    LET l == StripWs(import_line)
    IN IF MatchPlainImport(l).matched THEN MatchPlainImport(l).names
       ELSE IF MatchFromImport(l).matched THEN AliasNames(SplitComma(MatchFromImport(l).rest))
       ELSE <<>>

\* stripped.startswith('import ') or stripped.startswith('from ')
StartsWithImport(st) ==
    /\ Len(st) >= 2
    /\ st[1] \in {"import", "from"}
    /\ st[2] \in {" ", IND}

\* all(name in setup_imports for name in imported_names)
AllInSetup(names, imports) ==
    \A i \in DOMAIN names : names[i] \in DOMAIN imports

\* A variant of the loop's test that also skips lines holding only white space
SkipsLineOrBlank(line, imports) ==
    LET st == StripWs(line)
        imported_names == ExtractImportedNamesFromLine(st)
    IN \/ st = <<>>
       \/ /\ StartsWithImport(st)
          /\ AllInSetup(imported_names, imports)
          /\ imported_names # <<>>

\* lines 409-420: whether the loop skips the line
SkipsLine(line, imports) ==
    LET st == StripWs(line)
        imported_names == ExtractImportedNamesFromLine(st)
    IN /\ StartsWithImport(st)
       /\ AllInSetup(imported_names, imports)
       /\ imported_names # <<>>

\* A variant of the loop that stops testing lines once it has skipped one
KeepLinesDropsOne(lines, imports) ==
    LET hit == {i \in DOMAIN lines : SkipsLine(lines[i], imports)}
    IN IF hit = {} THEN lines
       ELSE LET first == CHOOSE i \in hit : \A j \in hit : i <= j
            IN SubSeq(lines, 1, first - 1) \o SubSeq(lines, first + 1, Len(lines))

RECURSIVE KeepLines(_, _)
KeepLines(lines, imports) ==
    IF lines = <<>> THEN <<>>
    ELSE (IF SkipsLine(Head(lines), imports) THEN <<>> ELSE <<Head(lines)>>)
             \o KeepLines(Tail(lines), imports)

\* strip_imports_from_action_code (lines 391-424)
StripImportsFromActionCode(code, imports) ==
    JoinLines(KeepLines(SplitLines(code), imports))

-----------------------------------------------------------------------------
(* Snapshot injection *)

SnapshotName(target_var) == "_viz_snapshot_" \o target_var

\* re.match(r"^(\s*)", line).group(1): \s also matches the line terminator
RECURSIVE IndentOf(_)
IndentOf(l) ==
    IF l # <<>> /\ IsSpace(Head(l)) THEN <<Head(l)>> \o IndentOf(Tail(l)) ELSE <<>>

\* f"{indent}_viz_snapshot_{v} = {v}.copy() if hasattr({v}, 'copy') else {v}\n"
SnapshotLine(indent, v) ==
    indent \o <<SnapshotName(v), " ", "=", " ", v, ".", "copy", "(", ")", " ", "if", " ",
                "hasattr", "(", v, ",", " ", "'copy'", ")", " ", "else", " ", v, NL>>

\* list.insert(pos, x) with a 0-based position
InsertAt(lines, pos, x) ==
    SubSeq(lines, 1, pos) \o <<x>> \o SubSeq(lines, pos + 1, Len(lines))

\* ".pipe(" in content or re.search(r"\.\w+\(", content)
HasMethodCall(l) ==
    \E i \in DOMAIN l : l[i] = "." /\ i + 2 <= Len(l) /\ IsWord(l[i + 1]) /\ l[i + 2] = "("

\* "=" in line and "==" not in line
IsAssignmentLine(l) ==
    /\ \E i \in DOMAIN l : l[i] \in {"=", "==", "!=", "<=", ">=", "+="}
    /\ \A i \in DOMAIN l : l[i] # "=="

\* "return" in line
HasReturn(l) == \E i \in DOMAIN l : l[i] \in {"return", "returns", "return_value"}

\* line.count("(") - line.count(")")
RECURSIVE ParenDelta(_)
ParenDelta(l) ==
    IF l = <<>> THEN 0
    ELSE (IF Head(l) = "(" THEN 1 ELSE IF Head(l) = ")" THEN -1 ELSE 0) + ParenDelta(Tail(l))

\* A variant: only the target line is tested
ChainStartAtTarget(lines, i) == IF IsAssignmentLine(lines[i + 1]) THEN i ELSE -1

\* lines 538-542: the nearest assignment line at or above i (0-based; -1 if none)
RECURSIVE ChainStart(_, _)
ChainStart(lines, i) ==
    IF i < 0 THEN -1
    ELSE IF IsAssignmentLine(lines[i + 1]) THEN i
    ELSE ChainStart(lines, i - 1)

\* lines 553-559: the end of the chain, from line i with the depth so far
RECURSIVE ChainEnd(_, _, _, _)
ChainEnd(lines, i, depth, default) ==
    IF i >= Len(lines) THEN default
    ELSE LET d == depth + ParenDelta(lines[i + 1])
             st == StripWs(lines[i + 1])
         IN IF d <= 0 /\ ((st # <<>> /\ st[Len(st)] = ")") \/ HasReturn(lines[i + 1]))
            THEN i
            ELSE ChainEnd(lines, i + 1, d, default)

\* lines 562-566: the first line with a return at or after i (-1 if none)
RECURSIVE FirstReturn(_, _)
FirstReturn(lines, i) ==
    IF i >= Len(lines) THEN -1
    ELSE IF HasReturn(lines[i + 1]) THEN i
    ELSE FirstReturn(lines, i + 1)

\* _break_method_chain (lines 512-568)
BreakMethodChain(lines, target_line_idx, target_var) ==
    LET chain_start == ChainStart(lines, target_line_idx)
    IN IF chain_start = -1 THEN JoinLines(lines)
       ELSE LET indent == IndentOf(lines[target_line_idx + 1])
                chain_end == ChainEnd(lines, chain_start, 0, target_line_idx)
                ret == FirstReturn(lines, chain_end)
            IN IF ret = -1 THEN JoinLines(lines)
               ELSE JoinLines(InsertAt(lines, ret, SnapshotLine(indent, target_var)))

\* A variant that appends the snapshot when the line is outside the cell
InjectSnapshotAppends(code, target_var, line, start) ==
    LET lines == SplitLines(code)
        relative_line == line - start
    IN IF relative_line < 0 \/ relative_line >= Len(lines)
       THEN code \o SnapshotLine(<<IND>>, target_var)
       ELSE IF HasMethodCall(lines[relative_line + 1])
            THEN BreakMethodChain(lines, relative_line, target_var)
            ELSE JoinLines(InsertAt(lines, relative_line + 1,
                                    SnapshotLine(IndentOf(lines[relative_line + 1]),
                                                 target_var)))

\* inject_snapshot (lines 463-509)
InjectSnapshot(code, target_var, line, start) ==
    LET lines == SplitLines(code)
        relative_line == line - start
    IN IF relative_line < 0 \/ relative_line >= Len(lines) THEN code
       ELSE IF HasMethodCall(lines[relative_line + 1])
            THEN BreakMethodChain(lines, relative_line, target_var)
            ELSE JoinLines(InsertAt(lines, relative_line + 1,
                                    SnapshotLine(IndentOf(lines[relative_line + 1]),
                                                 target_var)))

-----------------------------------------------------------------------------
(* Notebook assembly *)

Part(sec, text) == [sec |-> sec, text |-> text]

\* Python truthiness of an optional string (None is NoneVal)
TruthyStr(x) == x # NoneVal /\ x # ""

\* Python truthiness of an optional int (None is <<>>, the number n is <<n>>)
TruthyInt(x) == x # <<>> /\ x[1] # 0

\* _indent_code (lines 676-685)
RECURSIVE IndentLines(_, _)
IndentLines(lines, indent) ==
    IF lines = <<>> THEN <<>>
    ELSE (IF StripWs(Head(lines)) # <<>> THEN indent \o Head(lines) ELSE Head(lines))
             \o IndentLines(Tail(lines), indent)

IndentCode(code, indent) == IndentLines(SplitLines(code), indent)

\* lines 602-604: the caller code after deduplication against the setup block
DedupPlotCode(p, plot_code) ==
    IF p.setup_code # <<>>
    THEN StripImportsFromActionCode(plot_code, ExtractSetupImports(p.setup_code))
    ELSE plot_code

\* lines 614-622: one part per line of the setup code
SetupLineParts(lines) ==
    [i \in DOMAIN lines |->
        Part("setup",
             IF StripWs(lines[i]) # <<>> /\ Head(lines[i]) # IND
             THEN <<IND>> \o lines[i] ELSE lines[i])]

\* lines 609-623
SetupParts(p) ==
    IF p.setup_code # <<>>
    THEN <<Part("setup", <<NL, "with", " ", "app.setup", ":", NL>>)>>
             \o SetupLineParts(SplitLines(p.setup_code))
             \o <<Part("setup", <<NL>>)>>
    ELSE <<>>

\* lines 626-627
ClassParts(p) ==
    [i \in DOMAIN p.classes |-> Part("class", <<NL>> \o p.classes[i].code \o <<NL>>)]

\* lines 630-632
\* A variant of the loop over the functions that does not test the name
FunctionPartsAll(functions, required) ==
    [i \in DOMAIN functions |-> Part("function", <<NL>> \o functions[i].code \o <<NL>>)]

RECURSIVE FunctionParts(_, _)
FunctionParts(functions, required) ==
    IF functions = <<>> THEN <<>>
    ELSE (IF Head(functions).name \in required
          THEN <<Part("function", <<NL>> \o Head(functions).code \o <<NL>>)>> ELSE <<>>)
             \o FunctionParts(Tail(functions), required)

\* lines 636-646: the code emitted for one required cell
CellCode(cell, target_var, line) ==
    IF /\ TruthyStr(target_var) /\ TruthyInt(line)
       /\ target_var \in Range(cell.defs)
       /\ cell.start_line <= line[1] /\ line[1] <= cell.end_line
    THEN InjectSnapshot(cell.code, target_var, line[1], cell.start_line)
    ELSE cell.code

\* lines 635-646
CellParts(p, indices, target_var, line) ==
    [i \in DOMAIN indices |->
        Part("cell", <<NL>> \o CellCode(p.cells[indices[i] + 1], target_var, line)
                        \o <<NL>>)]

\* lines 651-656
PlotRefs(target_var, line) ==
    IF TruthyStr(target_var) /\ TruthyInt(line) THEN SnapshotName(target_var)
    ELSE IF TruthyStr(target_var) THEN target_var
    ELSE "_"

\* lines 658-665
PlotCell(refs, code) ==
    <<NL, "@app.cell", NL, "def", " ", "_", "(", refs, ")", ":", NL,
      IND, "#", " ", "Viz skill injected plotting code", NL>>
        \o IndentCode(code, <<IND>>)
        \o <<NL, IND, "return", NL>>

SynthMain == <<NL, "if", " ", "__name__", " ", "==", " ", "\"__main__\"", ":", NL,
               IND, "app.run", "(", ")", NL>>

\* lines 668-671
MainParts(p) ==
    IF p.main_block # <<>> THEN <<Part("main", <<NL>> \o p.main_block)>>
    ELSE <<Part("main", SynthMain)>>

\* A variant of the assembly that emits the injected cell ahead of the
\* notebook's cells
AssemblePartsPlotFirst(p, indices, funcs, plot_code, target_var, line) ==
    <<Part("preamble", p.preamble)>>
        \o SetupParts(p)
        \o ClassParts(p)
        \o FunctionParts(p.functions, funcs)
        \o <<Part("plot", PlotCell(PlotRefs(target_var, line),
                                   DedupPlotCode(p, plot_code)))>>
        \o CellParts(p, indices, target_var, line)
        \o MainParts(p)

\* assemble_pruned_notebook (lines 576-673): the list `parts`
AssembleParts(p, indices, funcs, plot_code, target_var, line) ==
    <<Part("preamble", p.preamble)>>
        \o SetupParts(p)
        \o ClassParts(p)
        \o FunctionParts(p.functions, funcs)
        \o CellParts(p, indices, target_var, line)
        \o <<Part("plot", PlotCell(PlotRefs(target_var, line),
                                   DedupPlotCode(p, plot_code)))>>
        \o MainParts(p)

\* "".join(parts)
RECURSIVE JoinParts(_)
JoinParts(ps) == IF ps = <<>> THEN <<>> ELSE Head(ps).text \o JoinParts(Tail(ps))

-----------------------------------------------------------------------------
(* build_script, after its two argument checks (lines 724-736).  A run whose *)
(* target list has one element is a build_script call; prepare_notebook is  *)
(* also run directly on other lists.                                         *)

NoPrep == [ok |-> FALSE, message |-> <<>>]

NoResolved == [indices |-> <<>>, functions |-> {}]

NoError == [raised |-> FALSE, kind |-> "", message |-> <<>>]

NoResult == [script |-> <<>>, cwd |-> <<>>]

NoOutcome == [error |-> NoError, result |-> NoResult]

\* raise ValueError(message) and the like
Raise(kind, text) ==
    [raised |-> TRUE, kind |-> kind, message |-> [text |-> text, names |-> <<>>]]

\* A variant of the argument checks that tests target_var first
BuildScriptBeginTargetFirst ==
    /\ pc = "build"
    /\ IF target_arg = NoneVal
       THEN /\ error' = Raise("ValueError", "MarimoHandler requires target_var")
            /\ pc' = "raised"
            /\ UNCHANGED <<parsed, target_vars>>
       ELSE IF source_path = NoneVal
       THEN /\ error' = Raise("ValueError", "MarimoHandler requires source_path (notebook path)")
            /\ pc' = "raised"
            /\ UNCHANGED <<parsed, target_vars>>
       ELSE IF source_path \notin DOMAIN disk
       THEN /\ error' = Raise("FileNotFoundError", "No such file or directory")
            /\ pc' = "raised"
            /\ UNCHANGED <<parsed, target_vars>>
       ELSE /\ parsed' = disk[source_path]
            /\ target_vars' = <<target_arg>>
            /\ pc' = "call"
            /\ UNCHANGED error
    /\ UNCHANGED <<snapVars, cliVars, parseVars, toolVars, source_path, target_arg, disk, result, call_no, first_outcome,
                   resolverVars, prep, action_code, target_line, stripVars, parts, script>>

\* lines 719-724 and 88-90: the two argument checks, then prepare_notebook
\* opens the notebook and parses it
BuildScriptBegin ==
    /\ pc = "build"
    /\ IF source_path = NoneVal
       THEN /\ error' = Raise("ValueError", "MarimoHandler requires source_path (notebook path)")
            /\ pc' = "raised"
            /\ UNCHANGED <<parsed, target_vars>>
       ELSE IF target_arg = NoneVal
       THEN /\ error' = Raise("ValueError", "MarimoHandler requires target_var")
            /\ pc' = "raised"
            /\ UNCHANGED <<parsed, target_vars>>
       ELSE IF source_path \notin DOMAIN disk
       THEN /\ error' = Raise("FileNotFoundError", "No such file or directory")
            /\ pc' = "raised"
            /\ UNCHANGED <<parsed, target_vars>>
       ELSE /\ parsed' = disk[source_path]
            /\ target_vars' = <<target_arg>>
            /\ pc' = "call"
            /\ UNCHANGED error
    /\ UNCHANGED <<snapVars, cliVars, parseVars, toolVars, source_path, target_arg, disk, result, call_no, first_outcome,
                   resolverVars, prep, action_code, target_line, stripVars, parts, script>>

\* lines 725-726: raise ValueError(prep[1])
BuildScriptRaise ==
    /\ pc = "failed"
    /\ Len(target_vars) = 1
    /\ error' = [raised |-> TRUE, kind |-> "ValueError", message |-> prep.message]
    /\ pc' = "raised"
    /\ UNCHANGED <<parsed, target_vars, otherCalls, resolverVars, prep, action_code, target_line,
                   stripVars, parts, script>>

\* lines 728-736, and assemble_pruned_notebook called on its own
AssemblePrunedNotebook ==
    /\ pc \in {"prepared", "assemble"}
    /\ pc = "prepared" => Len(target_vars) = 1
    /\ LET ps == AssembleParts(prep.parsed, prep.required_indices, prep.required_functions,
                               action_code, prep.target_var, target_line)
       IN /\ parts' = ps
          /\ script' = JoinParts(ps)
    /\ pc' = "done"
    /\ UNCHANGED <<parsed, target_vars, otherCalls, resolverVars, prep, action_code, target_line,
                   stripVars, error>>

\* line 736: return script, prep.cwd
BuildScriptReturn ==
    /\ pc = "done"
    /\ call_no > 0
    /\ result' = [script |-> script, cwd |-> prep.cwd]
    /\ pc' = "returned"
    /\ UNCHANGED <<parsed, target_vars, snapVars, cliVars, parseVars, toolVars, source_path, target_arg, disk, call_no,
                   first_outcome, resolverVars, prep, action_code, target_line, stripVars, outVars>>

\* The caller keeps how the call ended and calls build_script again with the
\* same arguments, on the same handler.
SecondCall ==
    /\ pc \in {"raised", "returned"}
    /\ call_no = 1
    /\ first_outcome' = [error |-> error, result |-> result]
    /\ error' = NoError
    /\ result' = NoResult
    /\ call_no' = 2
    /\ pc' = "build"
    /\ UNCHANGED <<parsed, target_vars, snapVars, cliVars, parseVars, toolVars, source_path, target_arg, disk,
                   resolverVars, prep, action_code, target_line, stripVars, parts, script>>

-----------------------------------------------------------------------------
(* _parse_cell (lines 187-210), on the source of one decorated function.   *)
(* ast.parse is modelled for the shape marimo writes: a decorator line, a   *)
(* def line with plain parameters, body lines, return statements.           *)

\* The position of the first token equal to tok at or after i (0 if none)
RECURSIVE Find(_, _, _)
Find(l, tok, i) ==
    IF i > Len(l) THEN 0 ELSE IF l[i] = tok THEN i ELSE Find(l, tok, i + 1)

\* node.args.args: the parameter names of the def line, in order
ArgNames(def_line) ==
    LET open == Find(def_line, "(", 1)
        close == Find(def_line, ")", open + 1)
        inner == StripWs(SubSeq(def_line, open + 1, close - 1))
        pieces == IF inner = <<>> THEN <<>> ELSE SplitComma(inner)
    IN [i \in DOMAIN pieces |-> StripWs(pieces[i])[1]]

\* A variant of line 190 that drops every name beginning with an underscore
RefsOfDropsPrivate(arg_names) ==
    SelectSeq(arg_names, LAMBDA n : n \notin {"_", "__", "_x"})

\* line 190: [arg.arg for arg in node.args.args if arg.arg != "_"]
RefsOf(arg_names) == SelectSeq(arg_names, LAMBDA n : n # "_")

\* The expression of a return statement, None (<<>>) for a bare return
ReturnValue(line) ==
    LET st == StripWs(line) IN StripWs(SubSeq(st, 2, Len(st)))

IsReturn(line) == StripWs(line) # <<>> /\ StripWs(line)[1] = "return"

\* The elements of the expression when it is an ast.Tuple (a top-level comma,
\* with or without parentheses), no element otherwise
TupleElts(value) ==
    LET inner == IF value # <<>> /\ value[1] = "(" /\ value[Len(value)] = ")"
                 THEN SubSeq(value, 2, Len(value) - 1) ELSE value
        pieces == SplitComma(inner)
    IN IF Find(inner, ",", 1) = 0 THEN <<>>
       ELSE SelectSeq([i \in DOMAIN pieces |-> StripWs(pieces[i])], LAMBDA e : e # <<>>)

\* A variant: every element gives its first token
NamesOfFirstToken(elts) == [i \in DOMAIN elts |-> elts[i][1]]

\* isinstance(elt, ast.Name): the element is one identifier
NamesOf(elts) ==
    LET names == SelectSeq(elts, LAMBDA e : Len(e) = 1 /\ IsWord(e[1]))
    IN [i \in DOMAIN names |-> names[i][1]]

\* How deep in the blocks of the function a statement stands
NestingOf(line) == Len(SelectSeq(LeadingWs(line), LAMBDA t : t = IND))

\* The names of the tuples returned by the statements at nesting d, in order
RECURSIVE DefsAtNesting(_, _)
DefsAtNesting(lines, d) ==
    IF lines = <<>> THEN <<>>
    ELSE (IF IsReturn(Head(lines)) /\ NestingOf(Head(lines)) = d
          THEN NamesOf(TupleElts(ReturnValue(Head(lines))))
          ELSE <<>>) \o DefsAtNesting(Tail(lines), d)

\* ast.walk goes through the tree breadth first: the statements of one
\* nesting come before those of the next
RECURSIVE DefsFromNesting(_, _)
DefsFromNesting(lines, d) ==
    IF \A i \in DOMAIN lines : NestingOf(lines[i]) < d THEN <<>>
    ELSE DefsAtNesting(lines, d) \o DefsFromNesting(lines, d + 1)

\* lines 193-199: the names of the tuples returned
DefsOf(lines) == DefsFromNesting(lines, 1)

\* _parse_cell, the function being the whole source: its decorator is on
\* line 1 and its def on line 2 (_extract_node_source, lines 170-184)
ParseCellSource(source) ==
    LET source_lines == SplitLines(source)
        start_line == 1
        end_line == Len(source_lines)
    IN [name |-> source_lines[2][3],
        refs |-> RefsOf(ArgNames(source_lines[2])),
        defs |-> DefsOf(source_lines),
        code |-> JoinLines(SubSeq(source_lines, start_line, end_line)),
        start_line |-> start_line,
        end_line |-> end_line]

ParseCell ==
    /\ pc = "parse_cell"
    /\ parsed_cell' = ParseCellSource(cell_source)
    /\ pc' = "cell_parsed"
    /\ UNCHANGED <<parsed, target_vars, snapVars, buildVars, cliVars, toolVars, cell_source,
                   resolverVars, prep, action_code, target_line, stripVars, outVars>>

-----------------------------------------------------------------------------
(* get_python_command (viz_runner.py, lines 370-411).  A command is the     *)
(* list of its arguments, each a text.                                       *)

\* Path(__file__).parent
VizSkillDir == <<"skills", "viz", "scripts">>

\* ["uv", "run", "--directory", str(dir), "python"]
UvRun(dir) == <<<<"uv">>, <<"run">>, <<"--directory">>, PathText(dir), <<"python">>>>

SystemCmd == <<<<"python">>>>

\* validate_python_env: the import of matplotlib succeeds under the command
ValidatePythonEnv(cmd, working) == cmd \in working

\* any(marker.exists() for marker in uv_markers)
HasUvMarkers(dir, d) ==
    \E marker \in {"pyproject.toml", "uv.lock"} : Exists(Append(dir, marker), d)

\* get_python_fallback_chain (lines 370-400)
GetPythonFallbackChain(cwd, d, working) ==
    (IF cwd # <<>> /\ HasUvMarkers(cwd[1], d) /\ ValidatePythonEnv(UvRun(cwd[1]), working)
     THEN <<UvRun(cwd[1])>> ELSE <<>>)
        \o (IF ValidatePythonEnv(SystemCmd, working) THEN <<SystemCmd>> ELSE <<>>)
        \o <<UvRun(VizSkillDir)>>

\* get_python_command (lines 403-411)
GetPythonCommand(cwd, d, working) ==
    LET chain == GetPythonFallbackChain(cwd, d, working)
    IN IF chain # <<>> THEN chain[1] ELSE SystemCmd

GetPythonCommandCall ==
    /\ pc = "get_python"
    /\ python_cmd' = GetPythonCommand(cwd_arg, disk, working_envs)
    /\ pc' = "python_chosen"
    /\ UNCHANGED <<parsed, target_vars, snapVars, buildVars, cliVars, parseVars, laterVars, idVars,
                   mainVars, runVars, environ, cwd_arg, working_envs, resolverVars, prep, action_code, target_line,
                   stripVars, outVars>>

-----------------------------------------------------------------------------
(* get_unique_id (viz_runner.py, lines 424-446) and the script run_plot      *)
(* writes under the ID (lines 195-201).  An ID is a text; a file of VIZ_DIR *)
(* is named by the text of its name.                                         *)

\* f"{viz_id}.py"
ScriptName(id) == id \o <<".py">>

\* f"{base_id}_{counter}"
Suffixed(base_id, counter) == base_id \o <<"_", ToString(counter)>>

\* datetime.now().strftime("viz_%Y%m%d_%H%M%S")
TimestampId(now) == <<"viz", "_", now>>

\* A variant: the counter is tried once
FirstFreeCounterNoLoop(base_id, dir, counter) == counter

\* the loop of lines 443-445
RECURSIVE FirstFreeCounter(_, _, _)
FirstFreeCounter(base_id, dir, counter) ==
    IF ScriptName(Suffixed(base_id, counter)) \in dir
    THEN FirstFreeCounter(base_id, dir, counter + 1)
    ELSE counter

GetUniqueId(suggested, now, dir) ==
    LET base_id == IF suggested = NoneText THEN TimestampId(now) ELSE suggested
    IN IF ScriptName(base_id) \notin dir THEN base_id
       ELSE Suffixed(base_id, FirstFreeCounter(base_id, dir, 2))

\* The bounds of the runs: how many there are, and the clock's readings
MaxRuns == 4

Timestamps == {"20260101_000000", "20260101_000001"}

SuggestedIds == {NoneText, <<"my_plot">>, <<"my_plot", "_", "2">>, <<"other">>}

\* handle_marimo_plot, line 666
GetUniqueIdCall ==
    /\ pc = "get_id"
    /\ Len(scripts) < MaxRuns
    /\ \E suggested \in SuggestedIds, now \in Timestamps :
          /\ suggested_id' = suggested
          /\ final_id' = GetUniqueId(suggested, now, viz_dir)
    /\ pc' = "id_chosen"
    /\ UNCHANGED <<parsed, target_vars, snapVars, buildVars, cliVars, parseVars, laterVars, pythonVars,
                   mainVars, runVars, viz_dir, scripts, resolverVars, prep, action_code, target_line,
                   stripVars, outVars>>

\* run_plot, lines 185-201: the script is written unless build_script raises
\* ValueError
RunPlotWrite ==
    /\ pc = "id_chosen"
    /\ \E built \in BOOLEAN :
          IF built
          THEN /\ viz_dir' = viz_dir \cup {ScriptName(final_id)}
               /\ scripts' = Append(scripts, final_id)
          ELSE UNCHANGED <<viz_dir, scripts>>
    /\ pc' = "get_id"
    /\ UNCHANGED <<parsed, target_vars, snapVars, buildVars, cliVars, parseVars, laterVars, pythonVars,
                   mainVars, runVars, suggested_id, final_id, resolverVars, prep, action_code, target_line,
                   stripVars, outVars>>

-----------------------------------------------------------------------------
(* Invocations of the runner running at the same time, each a process of   *)
(* its own: handle_marimo_plot calls get_unique_id (line 666) and run_plot  *)
(* writes the script under the ID later (lines 195-201).  The invocations   *)
(* share VIZ_DIR and nothing else.                                           *)

\* handle_marimo_plot, line 666, in invocation r
InvocationGetsId(r) ==
    /\ pc = "invocations"
    /\ invocation_pc[r] = "get_id"
    /\ \E now \in Timestamps :
          invocation_id' = [invocation_id EXCEPT ![r] = GetUniqueId(suggested_id, now, viz_dir)]
    /\ invocation_pc' = [invocation_pc EXCEPT ![r] = "run_plot"]
    /\ UNCHANGED <<pc, parsed, target_vars, snapVars, buildVars, cliVars, parseVars, pythonVars,
                   mainVars, runVars, notebookVars, scribeVars, suggested_id, final_id, viz_dir, scripts,
                   resolverVars, prep, action_code, target_line, stripVars, outVars>>

\* run_plot, lines 185-201, in invocation r: the script is written unless
\* build_script raises ValueError
InvocationWritesScript(r) ==
    /\ pc = "invocations"
    /\ invocation_pc[r] = "run_plot"
    /\ \E built \in BOOLEAN :
          IF built
          THEN /\ viz_dir' = viz_dir \cup {ScriptName(invocation_id[r])}
               /\ scripts' = Append(scripts, invocation_id[r])
               /\ invocation_pc' = [invocation_pc EXCEPT ![r] = "written"]
          ELSE /\ invocation_pc' = [invocation_pc EXCEPT ![r] = "failed"]
               /\ UNCHANGED <<viz_dir, scripts>>
    /\ UNCHANGED <<pc, parsed, target_vars, snapVars, buildVars, cliVars, parseVars, pythonVars,
                   mainVars, runVars, notebookVars, scribeVars, suggested_id, final_id, invocation_id,
                   resolverVars, prep, action_code, target_line, stripVars, outVars>>

-----------------------------------------------------------------------------
(* run_plot's runs of the script (viz_runner.py, lines 182-237),             *)
(* poll_for_file (lines 494-527) and the subprocess they wait for.  Time is  *)
(* counted in poll intervals.                                                *)

\* max_wait / poll_interval, in the model
MaxWait == 2

NoProc == [state |-> "none", status |-> 0, stderr |-> ""]

ModuleNotFound == "ModuleNotFoundError: No module named 'matplotlib'"

OtherFailure == "ValueError: x and y must have same first dimension"

PollResult(success, text, err) == [success |-> success, text |-> text, stderr |-> err]

NoPollResult == PollResult(FALSE, "", "")

NoRunResult == [success |-> FALSE, message |-> NoPollResult]

\* format_module_error (lines 530-557): the boxed message, or None (NoPollResult)
FormatModuleError(err) ==
    IF err = ModuleNotFound THEN PollResult(FALSE, "MISSING MODULE: ", "matplotlib")
    ELSE NoPollResult

\* lines 518-520: module_error or f"Script failed: {stderr}"
ExitMessage(err) ==
    IF FormatModuleError(err) # NoPollResult THEN FormatModuleError(err)
    ELSE PollResult(FALSE, "Script failed: ", err)

\* "MISSING MODULE" in result.message
IsModuleError(res) == res.text = "MISSING MODULE: "

\* run_plot, lines 182-204: the script is built and written, the chain read;
\* built tells whether build_script returns
RunPlotBegin ==
    /\ pc = "run_plot"
    /\ \E built \in BOOLEAN :
          IF built
          THEN /\ viz_dir' = viz_dir \cup {ScriptName(final_id)}
               /\ scripts' = Append(scripts, final_id)
               /\ fallback_chain' = GetPythonFallbackChain(cwd_arg, disk, working_envs)
               /\ attempt' = 1
               /\ pc' = "popen"
               /\ UNCHANGED run_result
          ELSE /\ run_result' = [success |-> FALSE,
                                 message |-> PollResult(FALSE, "ValueError", "")]
               /\ pc' = "plotted"
               /\ UNCHANGED <<viz_dir, scripts, fallback_chain, attempt>>
    /\ UNCHANGED <<parsed, target_vars, snapVars, buildVars, cliVars, parseVars, laterVars, pythonVars,
                   mainVars, suggested_id, final_id, tried, proc, png_exists, waited,
                   poll_result, metadata_writes, resolverVars, prep, action_code,
                   target_line, stripVars, outVars>>

\* lines 208-219: subprocess.Popen of the command, and the call of poll_for_file
Popen ==
    /\ pc = "popen"
    /\ proc' = [state |-> "running", status |-> 0, stderr |-> ""]
    /\ tried' = Append(tried, [cmd |-> fallback_chain[attempt], result |-> NoPollResult,
                               wrote_png |-> FALSE])
    /\ waited' = 0
    /\ pc' = "poll_check"
    /\ UNCHANGED <<parsed, target_vars, snapVars, buildVars, cliVars, parseVars, laterVars, pythonVars,
                   mainVars, idVars, fallback_chain, attempt, png_exists, poll_result, run_result,
                   metadata_writes, resolverVars, prep, action_code, target_line,
                   stripVars, outVars>>

\* lines 510-512 and 523-527: the loop's test, then target_file.exists()
PollCheck ==
    /\ pc = "poll_check"
    /\ IF waited < MaxWait
       THEN IF png_exists
            THEN /\ poll_result' = PollResult(TRUE, "File created", "")
                 /\ pc' = "polled"
            ELSE /\ pc' = "poll_sleep"
                 /\ UNCHANGED poll_result
       ELSE /\ poll_result' =
                  PollResult(FALSE, "Timeout waiting for file (process may still be running)", "")
            /\ pc' = "polled"
    /\ UNCHANGED <<parsed, target_vars, snapVars, buildVars, cliVars, parseVars, laterVars, pythonVars,
                   mainVars, idVars, fallback_chain, attempt, tried, proc, png_exists, waited,
                   run_result, metadata_writes, resolverVars, prep, action_code,
                   target_line, stripVars, outVars>>

\* lines 514-521: the sleep is over; process.poll()
PollWake ==
    /\ pc = "poll_sleep"
    /\ waited' = waited + 1
    /\ IF proc.state = "exited"
       THEN /\ poll_result' = ExitMessage(proc.stderr)
            /\ pc' = "polled"
       ELSE /\ pc' = "poll_check"
            /\ UNCHANGED poll_result
    /\ UNCHANGED <<parsed, target_vars, snapVars, buildVars, cliVars, parseVars, laterVars, pythonVars,
                   mainVars, idVars, fallback_chain, attempt, tried, proc, png_exists, run_result,
                   metadata_writes, resolverVars, prep, action_code, target_line,
                   stripVars, outVars>>

\* The script reaches its savefig
ProcWritesPng ==
    /\ pc \in {"poll_check", "poll_sleep"}
    /\ proc.state = "running"
    /\ ~png_exists
    /\ png_exists' = TRUE
    /\ tried' = [tried EXCEPT ![Len(tried)].wrote_png = TRUE]
    /\ UNCHANGED <<pc, parsed, target_vars, snapVars, buildVars, cliVars, parseVars, laterVars,
                   pythonVars, mainVars, idVars, fallback_chain, attempt, proc, waited, poll_result,
                   run_result, metadata_writes, resolverVars, prep, action_code,
                   target_line, stripVars, outVars>>

\* The script ends: with status 0, or with status 1 and a traceback
ProcExits ==
    /\ pc \in {"poll_check", "poll_sleep"}
    /\ proc.state = "running"
    /\ \E ending \in {[status |-> 0, stderr |-> ""],
                       [status |-> 1, stderr |-> ModuleNotFound],
                       [status |-> 1, stderr |-> OtherFailure]} :
          proc' = [state |-> "exited", status |-> ending.status, stderr |-> ending.stderr]
    /\ UNCHANGED <<pc, parsed, target_vars, snapVars, buildVars, cliVars, parseVars, laterVars,
                   pythonVars, mainVars, idVars, fallback_chain, attempt, tried, png_exists, waited,
                   poll_result, run_result, metadata_writes, resolverVars, prep,
                   action_code, target_line, stripVars, outVars>>

\* lines 221-237: what run_plot does with the poll's result
RunPlotNext ==
    /\ pc = "polled"
    /\ tried' = [tried EXCEPT ![Len(tried)].result = poll_result]
    /\ IF poll_result.success
       THEN /\ metadata_writes' = metadata_writes + 1
            /\ run_result' = [success |-> TRUE,
                              message |-> PollResult(TRUE, "Plot generated successfully", "")]
            /\ pc' = "plotted"
            /\ UNCHANGED attempt
       ELSE IF ~IsModuleError(poll_result) \/ attempt = Len(fallback_chain)
       THEN /\ run_result' = [success |-> FALSE, message |-> poll_result]
            /\ pc' = "plotted"
            /\ UNCHANGED <<attempt, metadata_writes>>
       ELSE /\ attempt' = attempt + 1
            /\ pc' = "popen"
            /\ UNCHANGED <<run_result, metadata_writes>>
    /\ UNCHANGED <<parsed, target_vars, snapVars, buildVars, cliVars, parseVars, laterVars, pythonVars,
                   mainVars, idVars, fallback_chain, proc, png_exists, waited, poll_result,
                   resolverVars, prep, action_code, target_line, stripVars, outVars>>

-----------------------------------------------------------------------------
(* validate_args (lines 738-746) *)

\* getattr(args, name, None)
GetAttr(a, name) == IF name \in DOMAIN a THEN a[name] ELSE NoneText

\* Truthiness of an optional string: None and "" are false
Given(x) == x # NoneText /\ x # <<>>

Reason(text, value) == [text |-> text, names |-> value]

\* lines 738-746, when Path.exists() returns
ValidateArgs(a, d) ==
    IF ~Given(GetAttr(a, "notebook_path"))
    THEN <<FALSE, Reason("--marimo requires --notebook path", <<>>)>>
    ELSE IF ~Given(GetAttr(a, "target_var"))
    THEN <<FALSE, Reason("--marimo requires --target-var", <<>>)>>
    ELSE IF ~Exists(PathOf(a["notebook_path"]), d)
    THEN <<FALSE, Reason("Notebook not found: ", a["notebook_path"])>>
    ELSE <<TRUE, Reason("", <<>>)>>

\* Path(args.notebook_path).exists() is reached and raises
ExistsRaises(a, lenient) ==
    /\ Given(GetAttr(a, "notebook_path"))
    /\ Given(GetAttr(a, "target_var"))
    /\ StatFails(PathOf(a["notebook_path"]))
    /\ ~lenient

\* One call of validate_args; lenient tells whether the interpreter's
\* Path.exists() swallows the errors of os.stat.
ValidateArgsCall ==
    /\ pc = "validate"
    /\ \E lenient \in BOOLEAN :
          IF ExistsRaises(args, lenient)
          THEN /\ error' = Raise("OSError", "File name too long")
               /\ pc' = "raised"
               /\ UNCHANGED valid
          ELSE /\ valid' = ValidateArgs(args, disk)
               /\ pc' = "validated"
               /\ UNCHANGED error
    /\ UNCHANGED <<parsed, target_vars, snapVars, buildVars, parseVars, toolVars, args,
                   resolverVars, prep, action_code, target_line, stripVars, parts, script>>

-----------------------------------------------------------------------------
(* main (viz_runner.py, lines 727-781): --clean, --list and the --marimo mode *)

\* print("error: ...", file=sys.stderr)
ErrorLine(text, value) == [prefix |-> "error: ", text |-> text, names |-> value]

NoStderr == [prefix |-> "", text |-> "", names |-> <<>>]

\* not plot_code.strip()
IsBlank(text) == \A i \in DOMAIN text : IsSpace(text[i])

\* lines 754-766: the line printed when the invocation is turned down, or
\* NoStderr; notebook_path is Path(args.notebook_path), printed as str does
MarimoArgsError(a, d) ==
    IF ~Given(a["notebook_path"])
    THEN ErrorLine("--marimo requires --notebook path", <<>>)
    ELSE IF ~Given(a["target_var"])
    THEN ErrorLine("--marimo requires --target-var", <<>>)
    ELSE IF ~Exists(PathOf(a["notebook_path"]), d)
    THEN ErrorLine("Notebook not found: ", PathText(PathOf(a["notebook_path"])))
    ELSE NoStderr

\* lines 772-779: the line printed when there is no plot code to read
StdinError(in) ==
    IF in.isatty THEN ErrorLine("Pipe plot code to stdin for marimo mode", <<>>)
    ELSE IF IsBlank(in.text) THEN ErrorLine("Empty plot code provided", <<>>)
    ELSE NoStderr

\* lines 746-747 and handle_clean (lines 600-609)
MainClean ==
    /\ pc = "main"
    /\ "clean" \in flags
    /\ viz_dir' = {}
    /\ handled' = "clean"
    /\ exit_code' = <<0>>
    /\ pc' = "exited"
    /\ UNCHANGED <<parsed, target_vars, snapVars, buildVars, cliVars, parseVars, laterVars, pythonVars, runVars,
                   flags, stdin, stderr, suggested_id, final_id, scripts, resolverVars, prep,
                   action_code, target_line, stripVars, outVars>>

\* lines 750-751
MainList ==
    /\ pc = "main"
    /\ "clean" \notin flags
    /\ "list" \in flags
    /\ handled' = "list"
    /\ exit_code' = <<0>>
    /\ pc' = "exited"
    /\ UNCHANGED <<parsed, target_vars, snapVars, buildVars, cliVars, parseVars, laterVars, pythonVars, runVars,
                   flags, stdin, stderr, idVars, resolverVars, prep, action_code, target_line,
                   stripVars, outVars>>

\* lines 753-781; lenient tells whether the interpreter's Path.exists()
\* swallows the errors of os.stat, built whether build_script returns and the
\* script runs.
MainMarimo ==
    /\ pc = "main"
    /\ flags \cap {"clean", "list"} = {}
    /\ \E lenient, built \in BOOLEAN, now \in Timestamps :
          IF ExistsRaises(args, lenient)
          THEN /\ error' = Raise("OSError", "File name too long")
               /\ exit_code' = <<1>>
               /\ pc' = "raised"
               /\ UNCHANGED <<stderr, handled, idVars>>
          ELSE IF MarimoArgsError(args, disk) # NoStderr
          THEN /\ stderr' = MarimoArgsError(args, disk)
               /\ exit_code' = <<1>>
               /\ pc' = "exited"
               /\ UNCHANGED <<error, handled, idVars>>
          ELSE IF "show" \in flags
          THEN \* handle_marimo_show: run_show builds the script and runs it
               /\ handled' = "show"
               /\ exit_code' = IF built THEN <<0>> ELSE <<1>>
               /\ pc' = "exited"
               /\ UNCHANGED <<error, stderr, idVars>>
          ELSE IF StdinError(stdin) # NoStderr
          THEN /\ stderr' = StdinError(stdin)
               /\ exit_code' = <<1>>
               /\ pc' = "exited"
               /\ UNCHANGED <<error, handled, idVars>>
          ELSE \* handle_marimo_plot: get_unique_id, then run_plot
               /\ final_id' = GetUniqueId(suggested_id, now, viz_dir)
               /\ IF built
                  THEN /\ viz_dir' = viz_dir \cup {ScriptName(final_id')}
                       /\ scripts' = Append(scripts, final_id')
                  ELSE UNCHANGED <<viz_dir, scripts>>
               /\ handled' = "plot"
               /\ exit_code' = IF built THEN <<0>> ELSE <<1>>
               /\ pc' = "exited"
               /\ UNCHANGED <<error, stderr, suggested_id>>
    /\ UNCHANGED <<parsed, target_vars, snapVars, buildVars, cliVars, parseVars, laterVars, pythonVars, runVars,
                   flags, stdin, resolverVars, prep, action_code, target_line, stripVars,
                   parts, script>>

-----------------------------------------------------------------------------
(* strip_imports_from_action_code called on its own, and again on its result *)

StripCall ==
    /\ pc = "strip"
    /\ stripped' = StripImportsFromActionCode(action_code, setup_imports)
    /\ pc' = "stripped"
    /\ UNCHANGED <<parsed, target_vars, otherCalls, resolverVars, prep, action_code, target_line,
                   setup_imports, restripped, outVars>>

StripAgain ==
    /\ pc = "stripped"
    /\ restripped' = StripImportsFromActionCode(stripped, setup_imports)
    /\ pc' = "restripped"
    /\ UNCHANGED <<parsed, target_vars, otherCalls, resolverVars, prep, action_code, target_line,
                   setup_imports, stripped, outVars>>

-----------------------------------------------------------------------------
(* inject_snapshot called on its own *)

InjectSnapshotCall ==
    /\ pc = "inject"
    /\ injected' = InjectSnapshot(cell_code, snap_var, snap_line, cell_start_line)
    /\ pc' = "injected"
    /\ UNCHANGED <<parsed, target_vars, resolverVars, prep, action_code, target_line,
                   stripVars, outVars, cell_code, snap_var, snap_line, cell_start_line,
                   buildVars, cliVars, parseVars, toolVars>>

-----------------------------------------------------------------------------
(* parse_marimo_notebook (lines 85-167).  ast.parse is not modelled: the    *)
(* file comes with its top-level nodes, each holding the line numbers the   *)
(* ast module gives it (lineno, end_lineno, the line of its first decorator *)
(* and the line of the first statement of its body).                         *)

\* source_lines[first - 1 : last], joined
SourceSlice(lines, first, last) == JoinLines(SubSeq(lines, first, last))

\* _extract_node_source (lines 170-184): (code, start_line, end_line)
ExtractNodeSource(node, lines) ==
    LET start_line == IF node.decorator_lineno < node.lineno
                      THEN node.decorator_lineno ELSE node.lineno
        end_line == node.end_lineno
    IN [code |-> SourceSlice(lines, start_line, end_line),
        start_line |-> start_line, end_line |-> end_line]

\* _parse_cell (lines 187-210) on a node of the file
ParseCellNode(node, lines) ==
    LET src == ExtractNodeSource(node, lines)
    IN [ParseCellSource(src.code) EXCEPT !.start_line = src.start_line,
                                         !.end_line = src.end_line]

\* _parse_function and _parse_class (lines 213-226)
ParseDefinition(node, lines) ==
    LET src == ExtractNodeSource(node, lines)
    IN [name |-> node.name, code |-> src.code,
        start_line |-> src.start_line, end_line |-> src.end_line]

\* lines 110-158: one round of the loop over ast.iter_child_nodes(tree)
ParseNode ==
    /\ pc = "parse_notebook"
    /\ node_no < Len(tree)
    /\ LET node == tree[node_no + 1]
       IN CASE node.kind = "setup" ->
                 /\ setup_start' = <<node.lineno>>
                 /\ parsed' = [parsed EXCEPT !.setup_code =
                                  SourceSlice(notebook_lines, node.body_lineno,
                                              node.end_lineno)]
            [] node.kind = "cell" ->
                 /\ parsed' = [parsed EXCEPT !.cells =
                                  Append(@, ParseCellNode(node, notebook_lines))]
                 /\ UNCHANGED setup_start
            [] node.kind = "function" ->
                 /\ parsed' = [parsed EXCEPT !.functions =
                                  Append(@, ParseDefinition(node, notebook_lines))]
                 /\ UNCHANGED setup_start
            [] node.kind = "class" ->
                 /\ parsed' = [parsed EXCEPT !.classes =
                                  Append(@, ParseDefinition(node, notebook_lines))]
                 /\ UNCHANGED setup_start
            [] node.kind = "main" ->
                 /\ parsed' = [parsed EXCEPT !.main_block =
                                  SourceSlice(notebook_lines, node.lineno,
                                              Len(notebook_lines))]
                 /\ UNCHANGED setup_start
            [] OTHER -> UNCHANGED <<parsed, setup_start>>
    /\ node_no' = node_no + 1
    /\ UNCHANGED <<pc, target_vars, snapVars, buildVars, cliVars, parseVars, pythonVars, idVars,
                   mainVars, runVars, raceVars, scribeVars, notebook_lines, tree, resolverVars, prep,
                   action_code,
                   target_line, stripVars, outVars>>

\* lines 160-167: the preamble, and the return
ParsePreamble ==
    /\ pc = "parse_notebook"
    /\ node_no = Len(tree)
    /\ parsed' = [parsed EXCEPT !.preamble =
                     IF setup_start # <<>>
                     THEN SourceSlice(notebook_lines, 1, setup_start[1] - 1)
                     ELSE IF parsed.cells # <<>>
                     THEN SourceSlice(notebook_lines, 1, parsed.cells[1].start_line - 1)
                     ELSE <<>>]
    /\ pc' = "notebook_parsed"
    /\ UNCHANGED <<target_vars, otherCalls, resolverVars, prep, action_code, target_line,
                   stripVars, outVars>>

\* The strictly increasing lists over a set of indices
IncreasingLists(S) ==
    {ix \in SeqsUpTo(S, Cardinality(S)) :
        \A i \in 1..(Len(ix) - 1) : ix[i] < ix[i + 1]}

\* prepare_notebook (lines 261-272) on the parsed file, the resolver's
\* answer being any sorted list of the file's cells and any set of its
\* functions
PrepareParsed ==
    /\ pc = "notebook_parsed"
    /\ \E ix \in IncreasingLists(0..(Len(parsed.cells) - 1)),
          fs \in SUBSET {parsed.functions[i].name : i \in DOMAIN parsed.functions} :
          IF NoCellsFound(ix)
          THEN /\ prep' = [ok |-> FALSE, message |-> NotFoundMessage(target_vars)]
               /\ pc' = "failed"
          ELSE /\ prep' = [ok |-> TRUE, parsed |-> parsed, required_indices |-> ix,
                           required_functions |-> fs, target_var |-> NoneVal]
               /\ pc' = "assemble"
    /\ UNCHANGED <<parsed, target_vars, otherCalls, resolverVars, action_code, target_line,
                   stripVars, outVars>>

-----------------------------------------------------------------------------
(* The scribe's entry commands (src/scribe/skills/scripts/entry.py):        *)
(* cmd_prepare (lines 256-361), cmd_finalize (lines 364-485) and cmd_abort  *)
(* (lines 488-513), run one after another in one working directory.  The    *)
(* .scribe directory is a record: whether it exists, its staging files      *)
(* (entry ID and content of each) and its daily logs (date -> the items of  *)
(* the file, none when the file does not exist).  A staging file's content  *)
(* is the record of its editable texts and of its _pending metadata.         *)

nonScribeVars == <<parsed, target_vars, snapVars, buildVars, cliVars, parseVars, pythonVars,
                   idVars, mainVars, runVars, notebookVars, raceVars, resolverVars, prep,
                   action_code, target_line, stripVars, outVars>>

\* How many entries the logs may come to hold
MaxEntries == 2

\* The clock's readings, the texts an author writes and how the git commands
\* of the git-entry mode end
Dates == {"2026-01-01", "2026-01-02"}

ClockTimes == {<<"09", "00">>}

EntryTitles == {"__TITLE__", "Parser fixed"}

EntryBodies == {"__BODY__", "Details"}

GitOutcomes == {"committed", "add_failed", "nothing_staged", "commit_failed"}

\* lines 35-36
TITLE_PLACEHOLDER == "__TITLE__"

BODY_PLACEHOLDER == "__BODY__"

\* ensure_scribe_dir, lines 69-74
PatternsNeeded == {".scribe/diffs/", ".scribe/assets/", ".scribe/__*__.md", "_20*-*"}

\* f"{suffix:02d}"
TwoDigits(n) == IF n < 10 THEN <<"0", ToString(n)>> ELSE <<ToString(n)>>

\* f"{today}-{time_str.replace(':', '-')}" (line 106), the time being (HH, MM)
BaseEntryId(today, time) == <<today, "-", time[1], "-", time[2]>>

\* get_existing_ids (lines 92-100): the IDs of the entries of a log file
GetExistingIds(log) == {log[i].id : i \in {j \in DOMAIN log : log[j].kind = "entry"}}

\* lines 114-116
RECURSIVE FreeSuffix(_, _, _)
FreeSuffix(base_id, existing_ids, suffix) ==
    IF (base_id \o <<"-">> \o TwoDigits(suffix)) \in existing_ids
    THEN FreeSuffix(base_id, existing_ids, suffix + 1)
    ELSE suffix

\* generate_entry_id (lines 103-118)
GenerateEntryId(log, today, time) ==
    LET base_id == BaseEntryId(today, time)
        existing_ids == GetExistingIds(log)
    IN IF base_id \notin existing_ids THEN base_id
       ELSE base_id \o <<"-">> \o TwoDigits(FreeSuffix(base_id, existing_ids, 2))

\* A variant of find_staging_file that finds nothing
FindStagingFileNever(dir) == {}

\* find_staging_file (lines 121-126): the staging files it can return (none
\* when the set is empty); iterdir gives the files in no fixed order
FindStagingFile(dir) == dir.staging

\* lines 293-359: the content cmd_prepare writes
PreparedContent(entry_id, time, git_entry) ==
    [id |-> entry_id, timestamp |-> time, title |-> TITLE_PLACEHOLDER,
     header |-> TITLE_PLACEHOLDER, body |-> BODY_PLACEHOLDER, git_entry |-> git_entry]

\* `placeholder in content`
HoldsText(content, text) == text \in {content.title, content.header, content.body}

\* lines 393-459: final_content, the staging content without _pending
FinalContent(content, committed) ==
    [kind |-> "entry", id |-> content.id, timestamp |-> content.timestamp,
     title |-> content.title, header |-> content.header, body |-> content.body,
     mode |-> IF committed THEN "git-entry" ELSE ""]

\* lines 461-471: the header is written when the log does not exist, then
\* the entry is appended
AppendToLog(log, today, entry) ==
    (IF log = <<>> THEN <<[kind |-> "header", id |-> <<today>>]>> ELSE log) \o <<entry>>

Ended(cmd, status) == [cmd |-> cmd, status |-> <<status>>, file |-> {}]

NoCommand == [cmd |-> "", status |-> <<>>, file |-> {}]

\* How many entries the logs hold
RECURSIVE CountEntries(_, _)
CountEntries(logs, dates) ==
    IF dates = {} THEN 0
    ELSE LET d == CHOOSE x \in dates : TRUE
         IN Cardinality({i \in DOMAIN logs[d] : logs[d][i].kind = "entry"})
              + CountEntries(logs, dates \ {d})

Began == [dir |-> scribe_dir, gitignore |-> gitignore]

\* cmd_prepare (lines 256-361)
CmdPrepare ==
    /\ pc = "scribe"
    /\ scribe_before' = Began
    /\ gitignore' = gitignore \cup PatternsNeeded
    /\ IF FindStagingFile(scribe_dir) # {}
       THEN /\ scribe_dir' = [scribe_dir EXCEPT !.exists = TRUE]
            /\ scribe_last' = Ended("prepare", 1)
       ELSE \E today \in DOMAIN scribe_dir.logs, time \in ClockTimes, git_entry \in BOOLEAN :
               /\ CountEntries(scribe_dir.logs, Dates) < MaxEntries
               /\ LET entry_id == GenerateEntryId(scribe_dir.logs[today], today, time)
                  IN /\ scribe_dir' =
                           [scribe_dir EXCEPT
                               !.exists = TRUE,
                               !.staging = {f \in @ : f.id # entry_id}
                                     \cup {[id |-> entry_id,
                                            content |-> PreparedContent(entry_id, time,
                                                                        git_entry)]}]
                     /\ scribe_last' = Ended("prepare", 0)
    /\ UNCHANGED <<pc, nonScribeVars>>

\* The author fills in the staging file
EditStaging ==
    /\ pc = "scribe"
    /\ \E f \in scribe_dir.staging, title \in EntryTitles, header \in EntryTitles,
          body \in EntryBodies :
          /\ [f.content EXCEPT !.title = title, !.header = header, !.body = body] # f.content
          /\ scribe_dir' =
                [scribe_dir EXCEPT
                    !.staging = (@ \ {f}) \cup
                        {[f EXCEPT !.content.title = title, !.content.header = header,
                                   !.content.body = body]}]
    /\ scribe_last' = [cmd |-> "edit", status |-> <<>>, file |-> {}]
    /\ UNCHANGED <<pc, gitignore, scribe_before, nonScribeVars>>

\* cmd_finalize up to the append to the daily log (lines 364-471)
CmdFinalize ==
    /\ pc = "scribe"
    /\ scribe_before' = Began
    /\ IF ~scribe_dir.exists \/ FindStagingFile(scribe_dir) = {}
       THEN /\ scribe_last' = Ended("finalize", 1)
            /\ UNCHANGED <<pc, scribe_dir>>
       ELSE \E f \in FindStagingFile(scribe_dir), git \in GitOutcomes,
               today \in DOMAIN scribe_dir.logs :
               IF \/ HoldsText(f.content, TITLE_PLACEHOLDER)
                  \/ HoldsText(f.content, BODY_PLACEHOLDER)
                  \/ (f.content.git_entry /\ git # "committed")
               THEN /\ scribe_last' = Ended("finalize", 1)
                    /\ UNCHANGED <<pc, scribe_dir>>
               ELSE /\ scribe_dir' =
                          [scribe_dir EXCEPT
                              !.logs[today] =
                                  AppendToLog(@, today,
                                              FinalContent(f.content,
                                                           f.content.git_entry))]
                    /\ scribe_last' = [cmd |-> "finalize", status |-> <<>>, file |-> {f}]
                    /\ pc' = "finalize_appended"
    /\ UNCHANGED <<gitignore, nonScribeVars>>

\* cmd_finalize, lines 473-485: the warnings, then staging_file.unlink()
FinalizeUnlink ==
    /\ pc = "finalize_appended"
    /\ scribe_dir' = [scribe_dir EXCEPT !.staging = @ \ scribe_last.file]
    /\ scribe_last' = Ended("finalize", 0)
    /\ pc' = "scribe"
    /\ UNCHANGED <<gitignore, scribe_before, nonScribeVars>>

\* cmd_abort (lines 488-513)
CmdAbort ==
    /\ pc = "scribe"
    /\ scribe_before' = Began
    /\ IF ~scribe_dir.exists
       THEN /\ scribe_last' = Ended("abort", 1)
            /\ UNCHANGED scribe_dir
       ELSE IF FindStagingFile(scribe_dir) = {}
       THEN /\ scribe_last' = Ended("abort", 0)
            /\ UNCHANGED scribe_dir
       ELSE \E f \in FindStagingFile(scribe_dir) :
               /\ scribe_dir' = [scribe_dir EXCEPT !.staging = @ \ {f}]
               /\ scribe_last' = Ended("abort", 0)
    /\ UNCHANGED <<pc, gitignore, nonScribeVars>>

-----------------------------------------------------------------------------
(* Inputs *)

\* Lines of caller code, without their terminator
ImportNumpyAsNp == <<"import", " ", "numpy", " ", "as", " ", "np">>

ImportOs == <<"import", " ", "os">>

ImportOsSys == <<"import", " ", "os", ",", " ", "sys">>

ImportPyplotAsPlt == <<"import", " ", "matplotlib", ".", "pyplot", " ", "as", " ", "plt">>

FromTypingImport == <<"from", " ", "typing", " ", "import", " ", "List", ",", " ", "Dict">>

FromTypingImportParen ==
    <<"from", " ", "typing", " ", "import", " ", "(", "List", ",", " ", "Dict", ")">>

ImportNumpyComment == ImportNumpyAsNp \o <<" ", " ", "#", " ", "numerics">>

IndentedImportOs == <<IND>> \o ImportOs

DfHead == <<"df", ".", "head", "(", ")">>

BlankLine == <<>>

ActionLines ==
    {ImportNumpyAsNp, ImportOs, ImportOsSys, ImportPyplotAsPlt, FromTypingImport,
     FromTypingImportParen, ImportNumpyComment, IndentedImportOs, DfHead, BlankLine}

MaxLines == 2

\* Texts of at most MaxLines lines; only the last line may lack its terminator.
CodesOf(lineset) ==
    {JoinLines([i \in DOMAIN ls |-> ls[i] \o (IF i = Len(ls) /\ ~nl THEN <<>> ELSE <<NL>>)]) :
        ls \in SeqsUpTo(lineset, MaxLines), nl \in BOOLEAN}

ImportedNames == {"np", "os", "sys", "plt", "List", "Dict"}

SetupMaps == {[k \in K |-> <<"import", " ", k>>] : K \in SUBSET ImportedNames}

\* Setup blocks: as parse_marimo_notebook slices them (indented), as the tests
\* pass them (not indented), and two that do not parse once dedented.
SetupIndented ==
    <<IND>> \o ImportNumpyAsNp \o <<NL, IND>> \o ImportOs \o <<NL, IND>>
        \o <<"import", " ", "sys">> \o <<NL>>

SetupPlain == ImportPyplotAsPlt \o <<NL>> \o <<"from", " ", "typing", " ", "import", " ", "List">>
                  \o <<NL>>

SetupTyping == FromTypingImport \o <<NL, NL>> \o ImportOs \o <<NL>>

SetupRagged == <<IND>> \o ImportOs \o <<NL, " ">> \o <<"x", " ", "=", " ", "1", NL>>

SetupRaggedPlain == ImportOs \o <<" ", "as", " ", "sys", NL, IND>> \o <<"x", " ", "=", " ", "1", NL>>

SetupCodes == {<<>>, SetupIndented, SetupPlain, SetupTyping, SetupRagged, SetupRaggedPlain}

\* Documents the assembler is run on
ClassSource == <<"class", " ", "DataProcessor", ":", NL, IND, "pass", NL>>

MarimoClass(start) ==
    [name |-> "DataProcessor", code |-> ClassSource, start_line |-> start,
     end_line |-> start + 1]

MainBlock == <<"if", " ", "__name__", " ", "==", " ", "\"__main__\"", ":", NL,
               IND, "app.run", "(", ")", NL, "print", "(", ")", NL>>

Preamble == <<"import", " ", "marimo", NL, "app", " ", "=", " ", "marimo.App", "(", ")", NL>>

AssembleDoc(setup, withClass, withMain) ==
    [preamble |-> Preamble,
     setup_code |-> setup,
     functions |-> <<MarimoFunction("helper", 10), MarimoFunction("util", 13)>>,
     classes |-> IF withClass THEN <<MarimoClass(16)>> ELSE <<>>,
     cells |-> <<MarimoCell(<<>>, <<"a">>, CallHelper, 18),
                 MarimoCell(<<"a">>, <<"b">>, Pass, 22)>>,
     main_block |-> IF withMain THEN MainBlock ELSE <<>>]

AssembleDocs ==
    {AssembleDoc(su, c, m) : su \in SetupCodes, c \in BOOLEAN, m \in BOOLEAN}

AssembleInputs ==
    {[ok |-> TRUE, parsed |-> d, required_indices |-> ix, required_functions |-> fs,
      target_var |-> tv] :
        d \in AssembleDocs, ix \in {<<>>, <<0>>, <<1>>, <<0, 1>>},
        fs \in SUBSET {"helper"}, tv \in {NoneVal, "a"}}

AssembleLines == {ImportOs, ImportOsSys, ImportPyplotAsPlt, DfHead}

\* No snapshot, line 0, a line of the first cell's body, a line outside
\* every cell
TargetLines == {<<>>, <<0>>, <<20>>, <<40>>}

EmptyDoc ==
    [preamble |-> <<>>, setup_code |-> <<>>, functions |-> <<>>, classes |-> <<>>,
     cells |-> <<>>, main_block |-> <<>>]

\* Cell codes inject_snapshot is run on: an assignment, a method chain, the
\* first without its last line terminator (as the tests pass it), a body
\* with an empty line in it, no code
ChainBody == <<"df", " ", "=", " ", "raw", ".", "dropna", "(", ")">>

SpacedBody == <<"a", " ", "=", " ", "1", NL, NL, IND, "pass">>

\* A chain over several lines, between parentheses
LongChainBody ==
    <<"df", " ", "=", " ", "(", NL,
      IND, IND, "raw", NL,
      IND, IND, ".", "dropna", "(", ")", NL,
      IND, ")">>

\* A call that is assigned to nothing
BareCallBody == <<"raw", ".", "dropna", "(", ")">>

\* The code without its last line
WithoutLastLine(code) ==
    LET lines == SplitLines(code) IN JoinLines(SubSeq(lines, 1, Len(lines) - 1))

SnapshotCodes ==
    {CellSource(<<>>, <<"a">>, CallHelper),
     CellSource(<<"raw">>, <<"df">>, ChainBody),
     CellSource(<<"raw">>, <<"df">>, LongChainBody),
     CellSource(<<"raw">>, <<>>, BareCallBody),
     WithoutLastLine(CellSource(<<"raw">>, <<"df">>, ChainBody)),
     RStrip(CellSource(<<>>, <<"a">>, CallHelper)),
     CellSource(<<>>, <<"a">>, SpacedBody),
     <<>>}

MaxLineNo == 8

\* Notebooks build_script is run on
MaxBuildCells == 2

BuildDocs == {d \in ResolverDocs : Len(d.cells) <= MaxBuildCells}

\* The disk holds one notebook, under two paths
Disks == {[q \in {NotebookPath, LocalPath} |-> d] : d \in BuildDocs}

SourcePaths == {NoneVal, NotebookPath, LocalPath, MissingPath}

TargetVars == {NoneVal} \cup VarNames

SnapshotLines == 0..MaxLineNo

SnapshotStarts == {1, 5}

-----------------------------------------------------------------------------
(* Specifications *)

SnapshotIdle ==
    /\ cell_code = <<>>
    /\ snap_var = ""
    /\ snap_line = 0
    /\ cell_start_line = 0
    /\ injected = <<>>

NoDisk == [q \in {} |-> EmptyDoc]

BuildIdle ==
    /\ target_arg = NoneVal
    /\ disk = NoDisk
    /\ result = NoResult
    /\ call_no = 0
    /\ first_outcome = NoOutcome

NoArgs == [q \in {} |-> NoneText]

NoVerdict == <<FALSE, Reason("", <<>>)>>

CliIdle ==
    /\ args = NoArgs
    /\ valid = NoVerdict

NoCell == [name |-> "", refs |-> <<>>, defs |-> <<>>, code |-> <<>>,
           start_line |-> 0, end_line |-> 0]

ParseIdle ==
    /\ cell_source = <<>>
    /\ parsed_cell = NoCell

NoEnviron == [q \in {} |-> <<>>]

PythonIdle ==
    /\ environ = NoEnviron
    /\ cwd_arg = <<>>
    /\ working_envs = {}
    /\ python_cmd = <<>>

IdIdle ==
    /\ suggested_id = NoneText
    /\ final_id = <<>>
    /\ viz_dir = {}
    /\ scripts = <<>>

NoStdin == [isatty |-> TRUE, text |-> <<>>]

MainIdle ==
    /\ flags = {}
    /\ stdin = NoStdin
    /\ stderr = NoStderr
    /\ exit_code = <<>>
    /\ handled = ""

RunIdle ==
    /\ fallback_chain = <<>>
    /\ attempt = 0
    /\ tried = <<>>
    /\ proc = NoProc
    /\ png_exists = FALSE
    /\ waited = 0
    /\ poll_result = NoPollResult
    /\ run_result = NoRunResult
    /\ metadata_writes = 0

NotebookIdle ==
    /\ notebook_lines = <<>>
    /\ tree = <<>>
    /\ node_no = 0
    /\ setup_start = <<>>

RaceIdle ==
    /\ invocation_pc = <<>>
    /\ invocation_id = <<>>

ScribeIdle ==
    /\ scribe_dir = <<>>
    /\ gitignore = {}
    /\ scribe_last = <<>>
    /\ scribe_before = <<>>

LaterIdle == NotebookIdle /\ RaceIdle /\ ScribeIdle

OtherCallsIdle ==
    /\ SnapshotIdle /\ BuildIdle /\ source_path = NoneVal /\ CliIdle /\ ParseIdle
    /\ PythonIdle /\ IdIdle /\ MainIdle /\ RunIdle /\ LaterIdle

ResolverIdle ==
    /\ var_to_cell = EmptyMap
    /\ function_names = {}
    /\ queue = <<>>
    /\ visited_vars = {}
    /\ required_indices = {}
    /\ required_functions = {}
    /\ resolved = NoResolved
    /\ processed = [v \in VarNames \cup {FuncName} |-> 0]

OutputIdle ==
    /\ parts = <<>>
    /\ script = <<>>
    /\ error = NoError

StripIdle ==
    /\ stripped = <<>>
    /\ restripped = <<>>

\* prepare_notebook / build_script on every document and target list of the bounds
InitResolve ==
    /\ pc = "call"
    /\ parsed \in ResolverDocs
    /\ target_vars \in TargetLists
    /\ prep = NoPrep
    /\ action_code = DfHead \o <<NL>>
    /\ target_line = <<>>
    /\ setup_imports = NoImports
    /\ ResolverIdle
    /\ StripIdle
    /\ OutputIdle
    /\ PythonIdle
    /\ IdIdle
    /\ MainIdle
    /\ RunIdle
    /\ LaterIdle
    /\ ParseIdle
    /\ CliIdle
    /\ SnapshotIdle
    /\ BuildIdle
    /\ source_path = NotebookPath

NextResolve ==
    \/ GetRequiredCellsBegin
    \/ SkipVisited
    \/ Visit
    \/ GetRequiredCellsReturn
    \/ PrepareNotebookReturn
    \/ BuildScriptRaise
    \/ AssemblePrunedNotebook

SpecResolve == InitResolve /\ [][NextResolve]_vars

\* The call runs to completion: no step of it waits for anything.
FairSpecResolve == SpecResolve /\ WF_vars(NextResolve)

\* strip_imports_from_action_code on every caller code and name map of the bounds
InitStrip ==
    /\ pc = "strip"
    /\ parsed = EmptyDoc
    /\ target_vars = <<>>
    /\ prep = NoPrep
    /\ action_code \in CodesOf(ActionLines)
    /\ target_line = <<>>
    /\ setup_imports \in SetupMaps
    /\ ResolverIdle
    /\ StripIdle
    /\ OutputIdle
    /\ OtherCallsIdle

NextStrip ==
    \/ StripCall
    \/ StripAgain

SpecStrip == InitStrip /\ [][NextStrip]_vars

\* assemble_pruned_notebook on every input of the bounds
InitAssemble ==
    /\ pc = "assemble"
    /\ prep \in AssembleInputs
    /\ parsed = prep.parsed
    /\ target_vars = <<>>
    /\ action_code \in CodesOf(AssembleLines)
    /\ target_line \in TargetLines
    /\ setup_imports = NoImports
    /\ ResolverIdle
    /\ StripIdle
    /\ OutputIdle
    /\ OtherCallsIdle

NextAssemble == AssemblePrunedNotebook

SpecAssemble == InitAssemble /\ [][NextAssemble]_vars

-----------------------------------------------------------------------------
(* Properties of the dependency resolver *)

\* get_required_cells has returned
Returned == pc \in {"resolved", "prepared", "failed", "raised", "done"}

\* The cells (0-based) whose defs contain v
Definers(cells, v) == {i \in 0..(Len(cells) - 1) : v \in Range(cells[i + 1].defs)}

HasDefiner(cells, v) == Definers(cells, v) # {}

\* D(v): the last cell whose defs contain v
LastDefiner(cells, v) ==
    CHOOSE i \in Definers(cells, v) : \A j \in Definers(cells, v) : j <= i

\* The least set of names that contains R and every ref of D(v) for v in it
RECURSIVE ReachClosure(_, _)
ReachClosure(cells, R) ==
    LET more == UNION {Range(cells[LastDefiner(cells, v) + 1].refs) :
                           v \in {w \in R : HasDefiner(cells, w)}}
    IN IF more \subseteq R THEN R ELSE ReachClosure(cells, R \cup more)

ReachableNames(cells, targets) == ReachClosure(cells, Range(targets))

BackwardReachableCells(cells, targets) ==
    {LastDefiner(cells, v) :
        v \in {w \in ReachableNames(cells, targets) : HasDefiner(cells, w)}}

\* C1: required_indices is exactly the set of cells backward-reachable from the
\* targets: { D(v) : v in R, D(v) defined }, R the least set of names closed
\* under "refs of the last definer"; nothing reachable is missing and nothing
\* unreachable is included.
C1_RequiredIsBackwardReachable ==
    Returned =>
        Range(resolved.indices) = BackwardReachableCells(parsed.cells, target_vars)

\* A branch (a required cell with two refs, each defined by a required cell)
\* next to a defining cell that is not required.
C1_Witness ==
    /\ pc = "resolved"
    /\ \E i \in Range(resolved.indices) :
          /\ Len(parsed.cells[i + 1].refs) = 2
          /\ \A r \in Range(parsed.cells[i + 1].refs) :
                /\ HasDefiner(parsed.cells, r)
                /\ LastDefiner(parsed.cells, r) \in Range(resolved.indices) \ {i}
    /\ \E j \in 0..(Len(parsed.cells) - 1) :
          /\ j \notin Range(resolved.indices)
          /\ parsed.cells[j + 1].defs # <<>>

\* Two cells that reference each other's output, one of which is asked for
IsTwoCellCycle ==
    /\ Len(parsed.cells) = 2
    /\ parsed.cells[1].refs = <<"b">> /\ parsed.cells[1].defs = <<"a">>
    /\ parsed.cells[2].refs = <<"a">> /\ parsed.cells[2].defs = <<"b">>
    /\ Range(target_vars) \cap {"a", "b"} # {}

\* C2: the worklist loop terminates for every document and target list, also
\* when cells reference each other cyclically; every name is processed at most
\* once; for the two-cell cycle the result holds both indices once each.
C2_WorklistTerminates ==
    /\ <>(pc \notin {"call", "loop"})
    /\ [](\A v \in DOMAIN processed : processed[v] <= 1)
    /\ [](Returned /\ IsTwoCellCycle => resolved.indices = <<0, 1>>)

C2_Witness ==
    /\ pc = "resolved"
    /\ IsTwoCellCycle
    /\ resolved.indices = <<0, 1>>
    /\ visited_vars = {"a", "b"}

\* C3: the returned required_indices is strictly ascending and every element
\* is a position of the document's cell list.
C3_IndicesAscendingAndValid ==
    Returned =>
        \A i \in DOMAIN resolved.indices :
            /\ resolved.indices[i] \in 0..(Len(parsed.cells) - 1)
            /\ i < Len(resolved.indices) => resolved.indices[i] < resolved.indices[i + 1]

\* A cell reached through two of its defs, in a result of several cells that
\* the traversal did not visit in ascending order.
C3_Witness ==
    /\ pc = "resolved"
    /\ Len(resolved.indices) >= 2
    /\ \E v, w \in visited_vars :
          /\ v # w
          /\ v \in DOMAIN var_to_cell /\ w \in DOMAIN var_to_cell
          /\ var_to_cell[v] = var_to_cell[w]
    /\ target_vars # <<>>
    /\ target_vars[Len(target_vars)] \in DOMAIN var_to_cell
    /\ var_to_cell[target_vars[Len(target_vars)]] # resolved.indices[1]

\* C4: prepare_notebook fails (and build_script raises ValueError) with a
\* message naming the targets iff the index list is empty, the list is empty
\* iff no target is a key of var_to_cell, and otherwise the build succeeds.
C4_FailsIffNoTargetDefined ==
    pc \in {"prepared", "failed", "raised", "done"} =>
        LET noneDefined == \A t \in Range(target_vars) : t \notin DOMAIN var_to_cell
        IN /\ ~prep.ok <=> resolved.indices = <<>>
           /\ resolved.indices = <<>> <=> noneDefined
           /\ ~prep.ok => prep.message = NotFoundMessage(target_vars)
           /\ pc = "failed" <=> (~prep.ok /\ ~error.raised)
           /\ pc = "raised" => ~prep.ok /\ error.raised /\ error.message = prep.message
           /\ pc = "done" => prep.ok /\ ~error.raised /\ script # <<>>

\* build_script raised on a document that defines names, none of them asked for
C4_Witness ==
    /\ pc = "raised"
    /\ error.message.names = target_vars
    /\ DOMAIN var_to_cell # {}
    /\ target_vars[1] \notin DOMAIN var_to_cell

\* C5: when several cells define a name, the latest one is its only definer:
\* resolving a target v requires the last cell defining v, and an earlier cell
\* defining v only if it is the last definer of another reachable name.
C5_LastWriteWins ==
    Returned =>
        \A v \in Range(target_vars) :
            HasDefiner(parsed.cells, v) =>
                /\ LastDefiner(parsed.cells, v) \in Range(resolved.indices)
                /\ \A i \in Definers(parsed.cells, v) \ {LastDefiner(parsed.cells, v)} :
                      i \in Range(resolved.indices) =>
                          \E w \in ReachableNames(parsed.cells, target_vars) \ {v} :
                              /\ HasDefiner(parsed.cells, w)
                              /\ LastDefiner(parsed.cells, w) = i

\* A target defined by two cells, the earlier of which is left out
C5_Witness ==
    /\ pc = "resolved"
    /\ \E v \in Range(target_vars) :
          /\ Cardinality(Definers(parsed.cells, v)) >= 2
          /\ \E i \in Definers(parsed.cells, v) : i \notin Range(resolved.indices)
          /\ LastDefiner(parsed.cells, v) \in Range(resolved.indices)

\* build_script, called twice by one caller, on every notebook and argument
\* list of the bounds
InitBuild ==
    /\ pc = "build"
    /\ parsed = EmptyDoc
    /\ target_vars = <<>>
    /\ prep = NoPrep
    /\ action_code = ImportOs \o <<NL>> \o DfHead \o <<NL>>
    /\ target_line \in {<<>>, <<5>>}
    /\ setup_imports = NoImports
    /\ source_path \in SourcePaths
    /\ target_arg \in TargetVars
    /\ disk \in Disks
    /\ result = NoResult
    /\ call_no = 1
    /\ first_outcome = NoOutcome
    /\ SnapshotIdle
    /\ ResolverIdle
    /\ StripIdle
    /\ OutputIdle
    /\ PythonIdle
    /\ IdIdle
    /\ MainIdle
    /\ RunIdle
    /\ LaterIdle
    /\ ParseIdle
    /\ CliIdle

NextBuild ==
    \/ BuildScriptBegin
    \/ GetRequiredCellsBegin
    \/ SkipVisited
    \/ Visit
    \/ GetRequiredCellsReturn
    \/ PrepareNotebookReturn
    \/ BuildScriptRaise
    \/ AssemblePrunedNotebook
    \/ BuildScriptReturn
    \/ SecondCall

SpecBuild == InitBuild /\ [][NextBuild]_vars

\* The values an attribute of args takes: not set, None, "", or a text
NotebookArgs ==
    {NoneText, <<>>, <<"work", "/", "analysis.nb.py">>, <<".", "/", "analysis.nb.py">>,
     <<"work", "/", "gone.nb.py">>, <<"work">>, <<LongName>>}

TargetArgs == {NoneText, <<>>, <<"a">>, <<"df">>}

ArgSets ==
    {[k \in K |-> IF k = "notebook_path" THEN nb ELSE tv] :
        K \in SUBSET {"notebook_path", "target_var"}, nb \in NotebookArgs, tv \in TargetArgs}

\* validate_args on every namespace of the bounds, the notebook on disk or not
InitValidate ==
    /\ pc = "validate"
    /\ parsed = EmptyDoc
    /\ target_vars = <<>>
    /\ prep = NoPrep
    /\ action_code = <<>>
    /\ target_line = <<>>
    /\ setup_imports = NoImports
    /\ source_path = NoneVal
    /\ target_arg = NoneVal
    /\ disk \in Disks \cup {NoDisk}
    /\ result = NoResult
    /\ call_no = 0
    /\ first_outcome = NoOutcome
    /\ args \in ArgSets
    /\ valid = NoVerdict
    /\ SnapshotIdle
    /\ ResolverIdle
    /\ StripIdle
    /\ OutputIdle
    /\ PythonIdle
    /\ IdIdle
    /\ MainIdle
    /\ RunIdle
    /\ LaterIdle
    /\ ParseIdle

NextValidate == ValidateArgsCall

SpecValidate == InitValidate /\ [][NextValidate]_vars

\* Parameter names of a cell: the placeholder, names that begin with an
\* underscore, plain names
ParamNames == {"_", "__", "_x", "df", "a"}

MaxParams == 3

\* A def statement does not repeat a parameter name.
ParamLists == {ps \in SeqsUpTo(ParamNames, MaxParams) : NoDup(ps)}

\* return statements: bare, a one-element tuple, a tuple without
\* parentheses, a name that is no tuple, a tuple with an attribute in it, a
\* call with two arguments, an empty tuple, a tuple in a tuple, a list, no
\* return at all, a return inside a branch before the last one
ReturnForms ==
    {<<"return">>,
     <<"return", " ", "(", "result", ",", ")">>,
     <<"return", " ", "result", ",", " ", "b">>,
     <<"return", " ", "result">>,
     <<"return", " ", "(", "df", ".", "x", ",", " ", "result", ")">>,
     <<"return", " ", "f", "(", "result", ",", " ", "b", ")">>,
     <<"return", " ", "(", ")">>,
     <<"return", " ", "(", "result", ",", " ", "(", "b", ",", " ", "c", ")", ")">>,
     <<"return", " ", "[", "result", ",", " ", "b", "]">>,
     <<"pass">>,
     <<"if", " ", "result", ":", NL,
       IND, IND, "return", " ", "(", "a", ",", " ", "df", ".", "x", ")", NL,
       IND, "return", " ", "(", "b", ",", ")">>}

CellSourceOf(params, ret) ==
    <<"@app.cell", NL, "def", " ", "_", "(">> \o JoinWith(params, <<",", " ">>)
        \o <<")", ":", NL, IND, "result", " ", "=", " ", "1", NL, IND>> \o ret \o <<NL>>

\* _parse_cell on every cell source of the bounds
InitParseCell ==
    /\ pc = "parse_cell"
    /\ parsed = EmptyDoc
    /\ target_vars = <<>>
    /\ prep = NoPrep
    /\ action_code = <<>>
    /\ target_line = <<>>
    /\ setup_imports = NoImports
    /\ source_path = NoneVal
    /\ \E ps \in ParamLists, ret \in ReturnForms : cell_source = CellSourceOf(ps, ret)
    /\ parsed_cell = NoCell
    /\ SnapshotIdle
    /\ BuildIdle
    /\ CliIdle
    /\ ResolverIdle
    /\ StripIdle
    /\ OutputIdle
    /\ PythonIdle
    /\ IdIdle
    /\ MainIdle
    /\ RunIdle
    /\ LaterIdle

NextParseCell == ParseCell

SpecParseCell == InitParseCell /\ [][NextParseCell]_vars

\* The project directory get_python_command is given
ProjectDir == <<"work">>

\* VIZ_PYTHON_CMD: not set, or one of two commands
Environs ==
    {NoEnviron}
        \cup {[q \in {"VIZ_PYTHON_CMD"} |-> text] :
                 text \in {<<"/custom/python", " ", "-u">>, <<"uv", " ", "run", " ", "python">>}}

\* The disk holds any of the two uv markers of the project directory
MarkerDisks ==
    {[q \in {Append(ProjectDir, f) : f \in F} |-> EmptyDoc] :
        F \in SUBSET {"pyproject.toml", "uv.lock"}}

\* get_python_command in every environment of the bounds
InitPython ==
    /\ pc = "get_python"
    /\ parsed = EmptyDoc
    /\ target_vars = <<>>
    /\ prep = NoPrep
    /\ action_code = <<>>
    /\ target_line = <<>>
    /\ setup_imports = NoImports
    /\ source_path = NoneVal
    /\ target_arg = NoneVal
    /\ disk \in MarkerDisks
    /\ result = NoResult
    /\ call_no = 0
    /\ first_outcome = NoOutcome
    /\ environ \in Environs
    /\ cwd_arg \in {<<>>, <<ProjectDir>>}
    /\ working_envs \in SUBSET {UvRun(ProjectDir), SystemCmd}
    /\ python_cmd = <<>>
    /\ IdIdle
    /\ MainIdle
    /\ RunIdle
    /\ LaterIdle
    /\ SnapshotIdle
    /\ CliIdle
    /\ ParseIdle
    /\ ResolverIdle
    /\ StripIdle
    /\ OutputIdle

NextPython == GetPythonCommandCall

SpecPython == InitPython /\ [][NextPython]_vars

\* Runs one after another, in a directory that holds earlier files
InitUniqueId ==
    /\ pc = "get_id"
    /\ parsed = EmptyDoc
    /\ target_vars = <<>>
    /\ prep = NoPrep
    /\ action_code = <<>>
    /\ target_line = <<>>
    /\ setup_imports = NoImports
    /\ source_path = NoneVal
    /\ target_arg = NoneVal
    /\ disk = NoDisk
    /\ result = NoResult
    /\ call_no = 0
    /\ first_outcome = NoOutcome
    /\ suggested_id = NoneText
    /\ final_id = <<>>
    /\ viz_dir \in SUBSET {ScriptName(<<"my_plot">>), ScriptName(<<"my_plot", "_", "3">>)}
    /\ scripts = <<>>
    /\ MainIdle
    /\ RunIdle
    /\ LaterIdle
    /\ PythonIdle
    /\ SnapshotIdle
    /\ CliIdle
    /\ ParseIdle
    /\ ResolverIdle
    /\ StripIdle
    /\ OutputIdle

NextUniqueId == GetUniqueIdCall \/ RunPlotWrite

SpecUniqueId == InitUniqueId /\ [][NextUniqueId]_vars

\* The namespaces argparse hands to main: every attribute is there
ParsedArgSets == {a \in ArgSets : DOMAIN a = {"notebook_path", "target_var"}}

Stdins ==
    {[isatty |-> TRUE, text |-> <<>>]}
        \cup {[isatty |-> FALSE, text |-> t] : t \in {<<>>, <<NL>>, DfHead}}

\* The notebook is in the work directory, in the current one, or nowhere
MainDisks == {NoDisk} \cup {[q \in {f} |-> EmptyDoc] : f \in {NotebookPath, LocalPath}}

\* main in --marimo mode on every command line of the bounds
InitMain ==
    /\ pc = "main"
    /\ parsed = EmptyDoc
    /\ target_vars = <<>>
    /\ prep = NoPrep
    /\ action_code = <<>>
    /\ target_line = <<>>
    /\ setup_imports = NoImports
    /\ source_path = NoneVal
    /\ target_arg = NoneVal
    /\ disk \in MainDisks
    /\ result = NoResult
    /\ call_no = 0
    /\ first_outcome = NoOutcome
    /\ args \in ParsedArgSets
    /\ valid = NoVerdict
    /\ suggested_id \in {NoneText, <<"my_plot">>}
    /\ final_id = <<>>
    /\ viz_dir \in SUBSET {ScriptName(<<"my_plot">>)}
    /\ scripts = <<>>
    /\ flags \in SUBSET {"clean", "list", "show"}
    /\ stdin \in Stdins
    /\ stderr = NoStderr
    /\ exit_code = <<>>
    /\ handled = ""
    /\ RunIdle
    /\ LaterIdle
    /\ PythonIdle
    /\ SnapshotIdle
    /\ ParseIdle
    /\ ResolverIdle
    /\ StripIdle
    /\ OutputIdle

NextMain == MainClean \/ MainList \/ MainMarimo

SpecMain == InitMain /\ [][NextMain]_vars

\* Documents with two functions: one a cell calls, takes as a parameter or
\* names inside a longer identifier, the other named by a cell without outputs
OtherFuncName == "other"

CallOther == <<"other", "(", ")">>

NamesMyHelper == <<"b", " ", "=", " ", "my_helper">>

MaxFunctionCells == 2

FunctionCellShapes ==
    { [refs |-> <<>>,         defs |-> <<"a">>, body |-> CallHelper],
      [refs |-> <<"helper">>, defs |-> <<"b">>, body |-> Pass],
      [refs |-> <<"a">>,      defs |-> <<"b">>, body |-> NamesMyHelper],
      [refs |-> <<>>,         defs |-> <<"c">>, body |-> Pass],
      [refs |-> <<>>,         defs |-> <<>>,    body |-> CallOther] }

FunctionDocs ==
    {ResolverDoc(sh, <<FuncName, OtherFuncName>>) :
        sh \in SeqsUpTo(FunctionCellShapes, MaxFunctionCells)}

FunctionTargetLists == SeqsUpTo(VarNames \cup {FuncName}, MaxTargets)

\* get_required_cells on every such document and target list
InitFunctions ==
    /\ pc = "call"
    /\ parsed \in FunctionDocs
    /\ target_vars \in FunctionTargetLists
    /\ prep = NoPrep
    /\ action_code = <<>>
    /\ target_line = <<>>
    /\ setup_imports = NoImports
    /\ ResolverIdle
    /\ StripIdle
    /\ OutputIdle
    /\ OtherCallsIdle

NextFunctions ==
    \/ GetRequiredCellsBegin
    \/ SkipVisited
    \/ Visit
    \/ GetRequiredCellsReturn

SpecFunctions == InitFunctions /\ [][NextFunctions]_vars

\* run_plot under every chain of the bounds, the subprocess free to write
\* the PNG and to end at any moment
InitRunPlot ==
    /\ pc = "run_plot"
    /\ parsed = EmptyDoc
    /\ target_vars = <<>>
    /\ prep = NoPrep
    /\ action_code = <<>>
    /\ target_line = <<>>
    /\ setup_imports = NoImports
    /\ source_path = NoneVal
    /\ target_arg = NoneVal
    /\ disk \in MarkerDisks
    /\ result = NoResult
    /\ call_no = 0
    /\ first_outcome = NoOutcome
    /\ environ = NoEnviron
    /\ cwd_arg \in {<<>>, <<ProjectDir>>}
    /\ working_envs \in SUBSET {UvRun(ProjectDir), SystemCmd}
    /\ python_cmd = <<>>
    /\ suggested_id = <<"my_plot">>
    /\ final_id = <<"my_plot">>
    /\ viz_dir = {}
    /\ scripts = <<>>
    /\ RunIdle
    /\ LaterIdle
    /\ MainIdle
    /\ SnapshotIdle
    /\ CliIdle
    /\ ParseIdle
    /\ ResolverIdle
    /\ StripIdle
    /\ OutputIdle

NextRunPlot ==
    \/ RunPlotBegin
    \/ Popen
    \/ PollCheck
    \/ PollWake
    \/ ProcWritesPng
    \/ ProcExits
    \/ RunPlotNext

SpecRunPlot == InitRunPlot /\ [][NextRunPlot]_vars

\* inject_snapshot on every cell code, line and start line of the bounds
InitSnapshot ==
    /\ pc = "inject"
    /\ parsed = EmptyDoc
    /\ target_vars = <<>>
    /\ prep = NoPrep
    /\ action_code = <<>>
    /\ target_line = <<>>
    /\ setup_imports = NoImports
    /\ cell_code \in SnapshotCodes
    /\ snap_var \in {"a", "df"}
    /\ snap_line \in SnapshotLines
    /\ cell_start_line \in SnapshotStarts
    /\ injected = <<>>
    /\ ResolverIdle
    /\ StripIdle
    /\ OutputIdle
    /\ PythonIdle
    /\ IdIdle
    /\ MainIdle
    /\ RunIdle
    /\ LaterIdle
    /\ ParseIdle
    /\ CliIdle
    /\ BuildIdle
    /\ source_path = NoneVal

NextSnapshot == InjectSnapshotCall

SpecSnapshot == InitSnapshot /\ [][NextSnapshot]_vars

-----------------------------------------------------------------------------
(* Import statements as Python reads them, for the statements about import  *)
(* deduplication                                                             *)

\* The line, on its own, is a well-formed import statement.
IsImportStatement(line) == PyParseLine(StripWs(line)).kind \in {"import", "from"}

\* The `name [as alias]` items of an import statement
AliasPieces(line) ==
    LET l == Uncomment(StripWs(line))
        at == CHOOSE i \in DOMAIN l : l[i] = "import" /\ \A j \in 1..(i - 1) : l[j] # "import"
        rest == StripWs(SubSeq(l, at + 1, Len(l)))
        inner == IF rest # <<>> /\ rest[1] = "(" /\ rest[Len(rest)] = ")"
                 THEN SubSeq(rest, 2, Len(rest) - 1) ELSE rest
    IN SplitComma(inner)

\* The name one item binds: its alias, else the first component of its name
BoundName(piece) ==
    LET p == StripWs(piece)
    IN IF "as" \in Range(p) THEN p[Len(p)] ELSE p[1]

\* The names the line binds when executed
BoundNames(line) ==
    IF IsImportStatement(line)
    THEN {BoundName(AliasPieces(line)[i]) : i \in DOMAIN AliasPieces(line)}
    ELSE {}

\* The line begins with an import keyword, well-formed or not.
IsImportLine(line) ==
    StripWs(line) # <<>> /\ StripWs(line)[1] \in {"import", "from"}

\* The lines the statement on deduplication says are dropped
DuplicatesSetup(line, names) ==
    /\ IsImportStatement(line)
    /\ BoundNames(line) # {}
    /\ BoundNames(line) \subseteq names

RECURSIVE IsSubseq(_, _)
IsSubseq(xs, ys) ==
    IF xs = <<>> THEN TRUE
    ELSE IF ys = <<>> THEN FALSE
    ELSE IF Head(xs) = Head(ys) THEN IsSubseq(Tail(xs), Tail(ys))
    ELSE IsSubseq(xs, Tail(ys))

StripReturned == pc \in {"stripped", "restripped"}

\* C6: a line of the caller code is dropped if and only if it is an import
\* statement, binds at least one name, and every name it binds is a key of
\* the setup map; a line with partial overlap is kept whole.
C6_DropsIffAllBoundNamesInSetup ==
    StripReturned =>
        stripped = JoinLines(SelectSeq(SplitLines(action_code),
                       LAMBDA l : ~DuplicatesSetup(l, DOMAIN setup_imports)))

\* C7: the output lines are a subsequence of the input lines, and the lines
\* that are not import lines are the same, in the same order, in both.
C7_OutputIsSubsequence ==
    StripReturned =>
        /\ IsSubseq(SplitLines(stripped), SplitLines(action_code))
        /\ SelectSeq(SplitLines(stripped), LAMBDA l : ~IsImportLine(l))
               = SelectSeq(SplitLines(action_code), LAMBDA l : ~IsImportLine(l))

\* Two lines went in, the import was dropped and the other line came out
C7_Witness ==
    /\ pc = "stripped"
    /\ Len(SplitLines(action_code)) = 2
    /\ Len(SplitLines(stripped)) = 1
    /\ ~IsImportLine(SplitLines(stripped)[1])
    /\ StripWs(SplitLines(stripped)[1]) # <<>>

\* C8: deduplicating the result of a deduplication against the same map
\* returns it unchanged.
C8_StripIdempotent ==
    pc = "restripped" => restripped = stripped

\* The first pass dropped a line and kept an import line, the second pass ran
C8_Witness ==
    /\ pc = "restripped"
    /\ stripped # action_code
    /\ \E l \in Range(SplitLines(stripped)) : IsImportLine(l)

-----------------------------------------------------------------------------
(* The assembled document, section by section *)

PartsOf(sec) == SelectSeq(parts, LAMBDA q : q.sec = sec)

\* The lines of the injected cell, without their indentation
TerminalLines ==
    {StripWs(l) : l \in Range(SplitLines(JoinParts(PartsOf("plot"))))}

\* The names bound by the import statements of the setup block
SetupBoundNames(setup_code) ==
    UNION {BoundNames(l) : l \in Range(SplitLines(setup_code))}

\* C9: when the setup block is not empty, the injected cell holds no caller
\* import statement all of whose bound names the setup block's imports bind,
\* and it holds every caller line that is not an import line.
C9_TerminalCellHasNoDuplicateImport ==
    pc = "done" /\ prep.parsed.setup_code # <<>> =>
        \A l \in Range(SplitLines(action_code)) :
            /\ DuplicatesSetup(l, SetupBoundNames(prep.parsed.setup_code))
                  => StripWs(l) \notin TerminalLines
            /\ ~IsImportLine(l) => StripWs(l) \in TerminalLines

SectionOrder == <<"preamble", "setup", "class", "function", "cell", "plot", "main">>

Rank(sec) == CHOOSE i \in DOMAIN SectionOrder : SectionOrder[i] = sec

\* The entry-point block emitted when the document has none
CanonicalGuard ==
    <<NL, "if", " ", "__name__", " ", "==", " ", "\"__main__\"", ":", NL,
      IND, "app.run", "(", ")", NL>>

IsSuffix(x, y) == Len(x) <= Len(y) /\ SubSeq(y, Len(y) - Len(x) + 1, Len(y)) = x

\* C10: the sections come out in the order preamble, setup block (only when
\* setup_code is not empty), classes, required functions, required cells,
\* injected cell, entry-point block; there is exactly one injected cell, after
\* every cell and directly before the entry-point block, which is the
\* document's main_block when it has one and the canonical guard otherwise.
C10_FixedSectionOrder ==
    pc = "done" =>
        LET p == prep.parsed
            n == Len(parts)
        IN /\ \A i, j \in DOMAIN parts : i < j => Rank(parts[i].sec) <= Rank(parts[j].sec)
           /\ PartsOf("preamble") = <<Part("preamble", p.preamble)>>
           /\ (PartsOf("setup") # <<>>) <=> (p.setup_code # <<>>)
           /\ [i \in DOMAIN PartsOf("class") |-> PartsOf("class")[i].text]
                 = [i \in DOMAIN p.classes |-> <<NL>> \o p.classes[i].code \o <<NL>>]
           /\ Len(PartsOf("function"))
                 = Cardinality({i \in DOMAIN p.functions :
                                   p.functions[i].name \in prep.required_functions})
           /\ Len(PartsOf("cell")) = Len(prep.required_indices)
           /\ Len(PartsOf("plot")) = 1
           /\ Len(PartsOf("main")) = 1
           /\ parts[n - 1].sec = "plot"
           /\ parts[n].sec = "main"
           /\ IF p.main_block # <<>> THEN IsSuffix(p.main_block, parts[n].text)
              ELSE parts[n].text = CanonicalGuard
           /\ script = JoinParts(parts)

\* A document with a setup block, a class, a required function and two
\* required cells, and no main_block of its own
C10_Witness ==
    /\ pc = "done"
    /\ prep.parsed.setup_code # <<>>
    /\ prep.parsed.classes # <<>>
    /\ prep.required_functions # {}
    /\ Len(prep.required_indices) = 2
    /\ prep.parsed.main_block = <<>>
    /\ Len(PartsOf("cell")) = 2
    /\ Len(PartsOf("function")) = 1

\* The texts of the parts of one section, in order
TextsOf(sec) == [i \in DOMAIN PartsOf(sec) |-> PartsOf(sec)[i].text]

\* The part is the definition with this code: the code's lines, in order,
\* between the separating newlines (a snapshot only adds a line).
EmitsCode(text, code) ==
    /\ Len(text) >= 2 /\ Head(text) = NL /\ text[Len(text)] = NL
    /\ IsSubseq(SplitLines(code), SplitLines(SubSeq(text, 2, Len(text) - 1)))

TerminalCell == JoinParts(PartsOf("plot"))

\* The text opens a cell whose only parameter is the given name.
DeclaresInput(text, name) ==
    /\ Len(text) >= 11
    /\ SubSeq(text, 1, 11) = <<NL, "@app.cell", NL, "def", " ", "_", "(", name, ")", ":", NL>>

\* The text closes with a bare return.
DeclaresNoOutput(text) ==
    /\ Len(text) >= 4
    /\ SubSeq(text, Len(text) - 3, Len(text)) = <<NL, IND, "return", NL>>

\* C12: the injected cell declares one input and no output; the input is
\* _viz_snapshot_<target> when a target variable and a target line were both
\* supplied, the target variable when only it was supplied, and _ when no
\* target variable was given.
C12_TerminalCellInput ==
    pc = "done" =>
        /\ DeclaresNoOutput(TerminalCell)
        /\ DeclaresInput(TerminalCell,
              IF prep.target_var # NoneVal /\ target_line # <<>>
              THEN "_viz_snapshot_" \o prep.target_var
              ELSE IF prep.target_var # NoneVal THEN prep.target_var
              ELSE "_")

\* inject_snapshot's target line relative to the cell's first line
RelativeLine == snap_line - cell_start_line

OutsideCell == RelativeLine < 0 \/ RelativeLine >= Len(SplitLines(cell_code))

\* C13: when the target line is before the cell's first line or at or past
\* its last, inject_snapshot returns the cell code unchanged.
C13_OutOfRangeIsNoOp ==
    pc = "injected" /\ OutsideCell => injected = cell_code

\* A line past the end of a cell that has code
C13_Witness ==
    /\ pc = "injected"
    /\ cell_code # <<>>
    /\ RelativeLine >= Len(SplitLines(cell_code))
    /\ injected = cell_code

\* The line inject_snapshot is pointed at
TargetContent == SplitLines(cell_code)[RelativeLine + 1]

SimplePath == ~OutsideCell /\ ~HasMethodCall(TargetContent)

\* The line assigns the snapshot name, after its indentation
AssignsSnapshot(l) ==
    LET rest == SubSeq(l, Len(LeadingWs(l)) + 1, Len(l))
    IN Len(rest) >= 5 /\ SubSeq(rest, 1, 5) = <<SnapshotName(snap_var), " ", "=", " ", snap_var>>

\* C22: on the simple path inject_snapshot inserts exactly one line, right
\* after the target line and indented as the target line is, that assigns
\* _viz_snapshot_<var>; every line of the cell is kept, unchanged and in
\* order, and the result has one line more than the cell.
C22_SimplePathInsertsOneLine ==
    pc = "injected" /\ SimplePath =>
        LET lines == SplitLines(cell_code)
            out == SplitLines(injected)
            k == RelativeLine + 1
        IN /\ Len(out) = Len(lines) + 1
           /\ \A i \in 1..k : out[i] = lines[i]
           /\ \A i \in (k + 1)..Len(lines) : out[i + 1] = lines[i]
           /\ LeadingWs(out[k + 1]) = LeadingWs(lines[k])
           /\ AssignsSnapshot(out[k + 1])

ComplexPath == ~OutsideCell /\ HasMethodCall(TargetContent)

CellLines == SplitLines(cell_code)

\* The assignment lines at or above the target line (0-based)
AssignmentsAbove == {i \in 0..RelativeLine : IsAssignmentLine(CellLines[i + 1])}

\* The chain's start: the nearest of them
SpanStart == CHOOSE i \in AssignmentsAbove : \A j \in AssignmentsAbove : j <= i

\* The parentheses opened and not closed from the chain's start through line i
RECURSIVE OpenParens(_)
OpenParens(i) ==
    IF i < SpanStart THEN 0 ELSE OpenParens(i - 1) + ParenDelta(CellLines[i + 1])

\* The lines at which the chain may end
Closings ==
    {i \in SpanStart..(Len(CellLines) - 1) :
        /\ OpenParens(i) <= 0
        /\ \/ HasReturn(CellLines[i + 1])
           \/ LET st == StripWs(CellLines[i + 1]) IN st # <<>> /\ st[Len(st)] = ")"}

\* The chain's end: the first of them, or the target line
SpanEnd == IF Closings = {} THEN RelativeLine ELSE Min(Closings)

\* The lines from line i (0-based) through line j that hold a return
ReturnsIn(i, j) == {r \in i..j : HasReturn(CellLines[r + 1])}

\* The result is the cell with one snapshot assignment put before line r
InsertedBefore(r) ==
    LET out == SplitLines(injected)
    IN /\ Len(out) = Len(CellLines) + 1
       /\ \A i \in 1..r : out[i] = CellLines[i]
       /\ AssignsSnapshot(out[r + 1])
       /\ \A i \in (r + 1)..Len(CellLines) : out[i + 1] = CellLines[i]

\* C23 as stated: on the complex path one snapshot assignment is inserted
\* right before a return found between the chain's start and its end; with
\* no assignment line above the target or no return between them the code is
\* returned unchanged.
C23_ReturnInsideChainSpan ==
    pc = "injected" /\ ComplexPath =>
        IF AssignmentsAbove # {} /\ ReturnsIn(SpanStart, SpanEnd) # {}
        THEN InsertedBefore(Min(ReturnsIn(SpanStart, SpanEnd)))
        ELSE injected = cell_code

\* C23: on the complex path the chain's start is the nearest assignment line
\* at or above the target line and its end the first line from there on
\* that closes the parentheses; one snapshot assignment is inserted right
\* before the first line holding a return from the chain's end to the end of
\* the cell; with no such assignment line or no such return the code is
\* returned unchanged.
C23_ReturnAfterChainEnd ==
    pc = "injected" /\ ComplexPath =>
        IF AssignmentsAbove # {} /\ ReturnsIn(SpanEnd, Len(CellLines) - 1) # {}
        THEN InsertedBefore(Min(ReturnsIn(SpanEnd, Len(CellLines) - 1)))
        ELSE injected = cell_code

\* The target is a line inside a chain of several lines: the snapshot is put
\* before the return that follows the chain
C23_Witness ==
    /\ pc = "injected"
    /\ ComplexPath
    /\ AssignmentsAbove # {}
    /\ SpanStart < RelativeLine
    /\ RelativeLine < SpanEnd
    /\ ReturnsIn(SpanEnd, Len(CellLines) - 1) = {SpanEnd + 1}
    /\ InsertedBefore(SpanEnd + 1)

-----------------------------------------------------------------------------
(* build_script as its caller sees it *)

BuildEnded == pc \in {"raised", "returned"}

RaisedValueError == error.raised /\ error.kind = "ValueError"

NotebookReadable == source_path # NoneVal /\ source_path \in DOMAIN disk

-----------------------------------------------------------------------------
(* validate_args as its caller sees it *)

NotebookSupplied == "notebook_path" \in DOMAIN args /\ args["notebook_path"] \notin {NoneText, <<>>}

TargetSupplied == "target_var" \in DOMAIN args /\ args["target_var"] \notin {NoneText, <<>>}

NotebookOnDisk == NotebookSupplied /\ Exists(PathOf(args["notebook_path"]), disk)

\* C15: validate_args never raises; it returns (False, reason) with a
\* reason that is not empty when the notebook path is not supplied, else when
\* the target variable is not supplied, else when the path does not exist,
\* and (True, "") exactly when the three conditions are met; it parses
\* nothing and changes nothing.
C15_ValidateArgsTotal ==
    /\ pc # "raised"
    /\ pc = "validated" =>
        /\ valid[1] <=> (NotebookSupplied /\ TargetSupplied /\ NotebookOnDisk)
        /\ valid[1] <=> (valid[2].text = "")
        /\ ~NotebookSupplied => valid[2].text = "--marimo requires --notebook path"
        /\ NotebookSupplied /\ ~TargetSupplied =>
              valid[2].text = "--marimo requires --target-var"
        /\ NotebookSupplied /\ TargetSupplied /\ ~NotebookOnDisk =>
              valid[2] = Reason("Notebook not found: ", args["notebook_path"])
        /\ parsed = EmptyDoc
        /\ ~error.raised

\* How the call under way ended
Outcome == [error |-> error, result |-> result]

-----------------------------------------------------------------------------
(* _parse_cell as its caller sees it *)

\* The parameter names as they stand between the parentheses of the def line
DeclaredParams ==
    LET def_line == SplitLines(cell_source)[2]
        open == Find(def_line, "(", 1)
        close == Find(def_line, ")", open + 1)
    IN SelectSeq(SubSeq(def_line, open + 1, close - 1), IsWord)

-----------------------------------------------------------------------------
(* get_python_command as its caller sees it *)

\* str.split(): the text's words
RECURSIVE Words(_)
Words(text) ==
    IF text = <<>> THEN <<>>
    ELSE IF IsSpace(Head(text)) THEN Words(Tail(text))
    ELSE <<<<Head(text)>>>> \o Words(Tail(text))

ProjectUsable ==
    /\ cwd_arg # <<>>
    /\ \E f \in DOMAIN disk : f \in {Append(cwd_arg[1], "pyproject.toml"),
                                      Append(cwd_arg[1], "uv.lock")}
    /\ UvRun(cwd_arg[1]) \in working_envs

\* C18: the command is VIZ_PYTHON_CMD split into arguments when that
\* variable is set; otherwise the project's uv run when the directory has a
\* uv marker and the environment validates; otherwise python when it
\* validates; otherwise the viz skill's own uv run; it is never empty.
C18_PythonCommandPriority ==
    pc = "python_chosen" =>
        /\ python_cmd # <<>>
        /\ python_cmd =
              IF "VIZ_PYTHON_CMD" \in DOMAIN environ THEN Words(environ["VIZ_PYTHON_CMD"])
              ELSE IF ProjectUsable THEN UvRun(cwd_arg[1])
              ELSE IF SystemCmd \in working_envs THEN SystemCmd
              ELSE UvRun(VizSkillDir)

-----------------------------------------------------------------------------
(* get_unique_id as the runs see it *)

IsFree(id) == ScriptName(id) \notin viz_dir

\* the smallest k >= 2 whose suffixed ID is free
SmallestFree(base_id) ==
    CHOOSE k \in 2..(Cardinality(viz_dir) + 2) :
        /\ IsFree(Suffixed(base_id, k))
        /\ \A j \in 2..(k - 1) : ~IsFree(Suffixed(base_id, j))

\* C19: the ID get_unique_id returns has no script in the viz directory at
\* the time of the call; it is the suggested ID when that is free, else the
\* suggested ID suffixed with the smallest free k >= 2; and the scripts that
\* runs one after another have written all carry different IDs.
C19_UniqueIdIsFree ==
    /\ pc = "id_chosen" =>
          /\ IsFree(final_id)
          /\ suggested_id # NoneText =>
                final_id = IF IsFree(suggested_id) THEN suggested_id
                           ELSE Suffixed(suggested_id, SmallestFree(suggested_id))
    /\ NoDup(scripts)

\* the suggested ID and its _2 are both taken: the run is given _3
C19_Witness ==
    /\ pc = "id_chosen"
    /\ suggested_id = <<"my_plot">>
    /\ {<<"my_plot">>, <<"my_plot", "_", "2">>} \subseteq Range(scripts)
    /\ final_id = <<"my_plot", "_", "3">>

-----------------------------------------------------------------------------
(* main in --marimo mode against validate_args *)

\* C20: in --marimo mode main turns the invocation down, with exit code 1
\* and validate_args's reason on the standard error, exactly when
\* validate_args returns false for the same arguments, and hands it to the
\* build when validate_args returns true.
C20_CliRejectsAsValidateArgs ==
    pc = "exited" /\ handled \notin {"clean", "list"} =>
        LET verdict == ValidateArgs(args, disk)
        IN IF verdict[1]
           THEN handled \in {"show", "plot"} /\ stderr = NoStderr
           ELSE /\ handled = ""
                /\ exit_code = <<1>>
                /\ stderr = ErrorLine(verdict[2].text, verdict[2].names)

-----------------------------------------------------------------------------
(* The functions get_required_cells returns *)

DocFunctionNames == {parsed.functions[i].name : i \in DOMAIN parsed.functions}

\* f is a target or a ref of a required cell
VisitedName(f) == f \in ReachableNames(parsed.cells, target_vars)

\* f occurs in the code of a required cell
NamedByRequiredCell(f) ==
    \E i \in BackwardReachableCells(parsed.cells, target_vars) :
        NameInText(f, parsed.cells[i + 1].code)

\* C21: required_functions is exactly the set of the document's function
\* names that were visited (a target, or a ref of a required cell) or occur
\* as a substring of the code of a required cell; a function named only by
\* cells that are not required is left out.
C21_RequiredFunctions ==
    pc = "resolved" =>
        /\ resolved.functions =
              {f \in DocFunctionNames : VisitedName(f) \/ NamedByRequiredCell(f)}
        /\ resolved.functions \subseteq DocFunctionNames

\* helper is returned for the text of a required cell alone, and other,
\* which a cell that is not required calls, is not returned
C21_Witness ==
    /\ pc = "resolved"
    /\ resolved.functions = {FuncName}
    /\ ~VisitedName(FuncName)
    /\ \E i \in DOMAIN parsed.cells :
          /\ (i - 1) \notin Range(resolved.indices)
          /\ NameInText(OtherFuncName, parsed.cells[i].code)

-----------------------------------------------------------------------------
(* The defs of a parsed cell *)

\* The expressions of the return statements of the cell
ReturnedExprs ==
    LET lines == SplitLines(cell_source)
        stmts == SelectSeq(lines, LAMBDA l : StripWs(l) # <<>> /\ Head(StripWs(l)) = "return")
    IN [i \in DOMAIN stmts |-> StripWs(Tail(StripWs(stmts[i])))]

\* The expression without the parentheses around it
Unwrapped(e) ==
    IF e # <<>> /\ Head(e) = "(" /\ e[Len(e)] = ")" THEN SubSeq(e, 2, Len(e) - 1) ELSE e

\* The brackets open before position i of the expression
RECURSIVE OpenBefore(_, _)
OpenBefore(e, i) ==
    IF i <= 1 THEN 0
    ELSE OpenBefore(e, i - 1)
            + (IF e[i - 1] \in {"(", "["} THEN 1 ELSE IF e[i - 1] \in {")", "]"} THEN -1 ELSE 0)

\* The commas of the expression that stand inside no bracket
TopCommas(e) == {i \in DOMAIN e : e[i] = "," /\ OpenBefore(e, i) = 0}

\* The identifiers that are elements of the tuple e is: tokens that stand
\* alone between two top commas, or between one and an end of the expression
TupleNames(e) ==
    LET u == Unwrapped(e)
        Solid == {i \in DOMAIN u : ~IsSpace(u[i])}
        Alone(i) ==
            /\ IsWord(u[i])
            /\ \A j \in Solid : j < i => \E c \in TopCommas(u) : j <= c /\ c < i
            /\ \A j \in Solid : j > i => \E c \in TopCommas(u) : i < c /\ c <= j
    IN IF TopCommas(u) = {} THEN {} ELSE {i \in DOMAIN u : Alone(i)}

\* C24: a parsed cell's defs are the bare identifiers that are elements of
\* the tuples its return statements return, taken over all of them; a cell
\* without a return, a bare return and a return of something that is no
\* tuple give no defs, and an element that is no identifier is skipped.
C24_DefsAreReturnedTupleNames ==
    pc = "cell_parsed" =>
        LET exprs == ReturnedExprs
            Occurrences == {<<s, i>> \in (DOMAIN exprs) \X (1..Len(cell_source)) :
                               i \in TupleNames(exprs[s])}
        IN /\ Range(parsed_cell.defs) =
                 {Unwrapped(exprs[o[1]])[o[2]] : o \in Occurrences}
           /\ Len(parsed_cell.defs) = Cardinality(Occurrences)

\* Two returns, the first inside a branch with an attribute among its
\* elements: one name from each
C24_Witness ==
    /\ pc = "cell_parsed"
    /\ Len(ReturnedExprs) = 2
    /\ Range(parsed_cell.defs) = {"a", "b"}
    /\ Len(parsed_cell.defs) = 2

-----------------------------------------------------------------------------
(* poll_for_file and run_plot as their callers see them *)

TimeoutMessage == "Timeout waiting for file (process may still be running)"

ReportsExit == poll_result.text \in {"Script failed: ", "MISSING MODULE: "}

\* C25: poll_for_file returns within max_wait / poll_interval rounds; it
\* returns success when the target file was created before the timeout, a
\* script failure only when the process ended with an error, the timeout
\* failure otherwise; a process that writes the file and ends with status 0
\* between two polls is reported as a success.
C25_PollForFileOutcome ==
    pc = "polled" =>
        /\ waited <= MaxWait
        /\ png_exists => poll_result.success
        /\ ReportsExit => proc.state = "exited" /\ proc.status # 0
        /\ ~poll_result.success /\ ~ReportsExit => poll_result.text = TimeoutMessage

\* C26: run_plot starts the commands in the chain's order, the next one only
\* after a missing-module failure of the one before; it returns success, and
\* writes the metadata once, at the first command whose run produces the
\* PNG; it returns the failure of the first command that failed otherwise,
\* or the last missing-module failure when every command failed so.
C26_FallbackChainInOrder ==
    pc = "plotted" /\ tried # <<>> =>
        LET last == tried[Len(tried)]
        IN /\ \A i \in DOMAIN tried : tried[i].cmd = fallback_chain[i]
           /\ \A i \in 1..(Len(tried) - 1) : tried[i].result.text = "MISSING MODULE: "
           /\ \A i \in DOMAIN tried :
                 tried[i].wrote_png => i = Len(tried) /\ run_result.success
           /\ metadata_writes = IF run_result.success THEN 1 ELSE 0
           /\ ~run_result.success =>
                 /\ run_result.message = last.result
                 /\ last.result.text = "MISSING MODULE: " => Len(tried) = Len(fallback_chain)

-----------------------------------------------------------------------------
(* The snapshot the injected cell takes as its input *)

\* The text holds an assignment to the name
AssignsName(text, name) ==
    \E i \in 1..(Len(text) - 2) : SubSeq(text, i, i + 2) = <<name, " ", "=">>

\* C27: when the injected cell declares _viz_snapshot_<v> as its input, one
\* of the emitted cells holds an assignment to _viz_snapshot_<v>, whatever
\* the target line.
C27_SnapshotInputIsAssigned ==
    pc = "done" /\ DeclaresInput(TerminalCell, SnapshotName(prep.target_var)) =>
        \E i \in DOMAIN TextsOf("cell") :
            AssignsName(TextsOf("cell")[i], SnapshotName(prep.target_var))
-----------------------------------------------------------------------------
(* The files parse_marimo_notebook is run on: `import marimo`, the App      *)
(* assignment, then top-level statements in any order, one comment line     *)
(* after each.  Every line ends with a comment holding its number, which    *)
(* tells the lines of the file apart.                                        *)

MaxNodes == 4

NodeKinds == {"setup", "function", "class", "cell", "main"}

NodeNames == <<"n1", "n2", "n3", "n4", "n5", "n6", "n7", "n8">>

LineTag(n) == <<" ", "#", ToString(n), NL>>

\* The lines of a statement of the kind that starts at line n
StatementLines(kind, name, n) ==
    CASE kind = "setup" ->
           << <<"with", " ", "app.setup", ":">> \o LineTag(n),
              <<IND, "pass">> \o LineTag(n + 1) >>
      [] kind = "function" ->
           << <<"@app.function">> \o LineTag(n),
              <<"def", " ", name, "(", ")", ":">> \o LineTag(n + 1),
              <<IND, "pass">> \o LineTag(n + 2) >>
      [] kind = "class" ->
           << <<"class", " ", name, ":">> \o LineTag(n),
              <<IND, "pass">> \o LineTag(n + 1) >>
      [] kind = "cell" ->
           << <<"@app.cell">> \o LineTag(n),
              <<"def", " ", "_", "(", ")", ":">> \o LineTag(n + 1),
              <<IND, "return">> \o LineTag(n + 2) >>
      [] kind = "main" ->
           << <<"if", " ", "__name__", " ", "==", " ", "\"__main__\"", ":">> \o LineTag(n),
              <<IND, "app.run", "(", ")">> \o LineTag(n + 1) >>

CommentLine(n) == <<"#", ToString(n), NL>>

HeaderLines ==
    << <<"import", " ", "marimo">> \o LineTag(1), CommentLine(2),
       <<"app", " ", "=", " ", "marimo.App", "(", ")">> \o LineTag(3), CommentLine(4) >>

\* The line the i-th statement starts at
RECURSIVE StartOf(_, _)
StartOf(kinds, i) ==
    IF i = 1 THEN Len(HeaderLines) + 1
    ELSE StartOf(kinds, i - 1)
           + Len(StatementLines(kinds[i - 1], NodeNames[i - 1], 1)) + 1

RECURSIVE LinesFrom(_, _)
LinesFrom(kinds, i) ==
    IF i > Len(kinds) THEN <<>>
    ELSE LET first == StartOf(kinds, i)
             own == StatementLines(kinds[i], NodeNames[i], first)
         IN own \o <<CommentLine(first + Len(own))>> \o LinesFrom(kinds, i + 1)

\* source.splitlines(keepends=True)
FileLines(kinds) == HeaderLines \o LinesFrom(kinds, 1)

\* ast.iter_child_nodes(tree): the two header statements, then one node for
\* each statement
FileTree(kinds) ==
    << [kind |-> "import", name |-> "", lineno |-> 1, end_lineno |-> 1,
        decorator_lineno |-> 1, body_lineno |-> 1],
       [kind |-> "assign", name |-> "", lineno |-> 3, end_lineno |-> 3,
        decorator_lineno |-> 3, body_lineno |-> 3] >>
      \o [i \in DOMAIN kinds |->
            LET first == StartOf(kinds, i)
                decorated == kinds[i] \in {"function", "cell"}
                def_line == IF decorated THEN first + 1 ELSE first
            IN [kind |-> kinds[i], name |-> NodeNames[i],
                lineno |-> def_line,
                end_lineno |-> first + Len(StatementLines(kinds[i], NodeNames[i], 1)) - 1,
                decorator_lineno |-> first,
                body_lineno |-> def_line + 1]]

NotebookFiles == SeqsUpTo(NodeKinds, MaxNodes)

InitNotebook ==
    /\ pc = "parse_notebook"
    /\ \E kinds \in NotebookFiles :
          /\ notebook_lines = FileLines(kinds)
          /\ tree = FileTree(kinds)
    /\ node_no = 0
    /\ setup_start = <<>>
    /\ parsed = EmptyDoc
    /\ target_vars = <<>>
    /\ prep = NoPrep
    /\ action_code = DfHead \o <<NL>>
    /\ target_line = <<>>
    /\ setup_imports = NoImports
    /\ ResolverIdle
    /\ StripIdle
    /\ OutputIdle
    /\ SnapshotIdle /\ BuildIdle /\ source_path = NoneVal /\ CliIdle /\ ParseIdle
    /\ PythonIdle /\ IdIdle /\ MainIdle
    /\ RunIdle /\ RaceIdle /\ ScribeIdle

NextNotebook ==
    \/ ParseNode
    \/ ParsePreamble
    \/ PrepareParsed
    \/ AssemblePrunedNotebook

SpecNotebook == InitNotebook /\ [][NextNotebook]_vars
-----------------------------------------------------------------------------
(* The lines of the file among the parts of the parsed notebook *)

\* The numbers of the file's lines that the text holds
LinesIn(text) == {n \in 1..Len(notebook_lines) : ToString(n) \in Range(text)}

\* The texts parse_marimo_notebook keeps: preamble, setup block, cells,
\* functions, classes, main block
KeptTexts(p) ==
    <<p.preamble, p.setup_code>>
        \o [i \in DOMAIN p.cells |-> p.cells[i].code]
        \o [i \in DOMAIN p.functions |-> p.functions[i].code]
        \o [i \in DOMAIN p.classes |-> p.classes[i].code]
        \o <<p.main_block>>

\* How many times the line is in the emitted document
TimesEmitted(n) == Cardinality({i \in DOMAIN script : script[i] = ToString(n)})

\* C28: the lines of the preamble, of the setup block, of each cell, function
\* and class and of the main block are pairwise disjoint sets of lines of the
\* file, and the document assemble_pruned_notebook emits holds no line of the
\* file twice.
C28_SourceRangesDisjoint ==
    /\ pc = "notebook_parsed" =>
          \A i, j \in DOMAIN KeptTexts(parsed) :
              i < j => LinesIn(KeptTexts(parsed)[i]) \cap LinesIn(KeptTexts(parsed)[j]) = {}
    /\ pc = "done" => \A n \in 1..Len(notebook_lines) : TimesEmitted(n) <= 1
-----------------------------------------------------------------------------
(* Invocations of the runner at the same time, with the same --id *)

MaxInvocations == 2

Invocations == 1..MaxInvocations

InitInvocations ==
    /\ pc = "invocations"
    /\ parsed = EmptyDoc
    /\ target_vars = <<>>
    /\ prep = NoPrep
    /\ action_code = <<>>
    /\ target_line = <<>>
    /\ setup_imports = NoImports
    /\ ResolverIdle
    /\ StripIdle
    /\ OutputIdle
    /\ SnapshotIdle /\ BuildIdle /\ source_path = NoneVal /\ CliIdle /\ ParseIdle
    /\ PythonIdle /\ MainIdle /\ RunIdle /\ NotebookIdle /\ ScribeIdle
    /\ suggested_id \in SuggestedIds
    /\ final_id = <<>>
    /\ viz_dir \in SUBSET {ScriptName(<<"my_plot">>), ScriptName(<<"my_plot", "_", "2">>)}
    /\ scripts = <<>>
    /\ invocation_pc = [r \in Invocations |-> "get_id"]
    /\ invocation_id = [r \in Invocations |-> <<>>]

NextInvocations ==
    \E r \in Invocations :
        \/ InvocationGetsId(r)
        \/ InvocationWritesScript(r)

SpecInvocations == InitInvocations /\ [][NextInvocations]_vars

\* C29: invocations given the same suggested ID never hold the same final ID,
\* however their calls of get_unique_id and their writes of the script
\* interleave, and no script is written twice.
C29_ConcurrentIdsDistinct ==
    /\ \A q, r \in Invocations :
          q # r /\ invocation_pc[q] # "get_id" /\ invocation_pc[r] # "get_id" =>
              invocation_id[q] # invocation_id[r]
    /\ \A i, j \in DOMAIN scripts : i # j => scripts[i] # scripts[j]
-----------------------------------------------------------------------------
(* The scribe's commands, one at a time *)

NoLogs == [d \in Dates |-> <<>>]

\* The directories the commands start from: none, one without a log, one
\* whose log of the first day holds an entry
ScribeDirs ==
    { [exists |-> FALSE, staging |-> {}, logs |-> NoLogs],
      [exists |-> TRUE, staging |-> {}, logs |-> NoLogs],
      [exists |-> TRUE, staging |-> {},
       logs |-> [NoLogs EXCEPT !["2026-01-01"] =
                    AppendToLog(<<>>, "2026-01-01",
                        FinalContent([PreparedContent(BaseEntryId("2026-01-01", <<"09", "00">>),
                                                      <<"09", "00">>, FALSE)
                                        EXCEPT !.title = "Parser fixed",
                                               !.header = "Parser fixed",
                                               !.body = "Details"], FALSE))]] }

InitScribe ==
    /\ pc = "scribe"
    /\ parsed = EmptyDoc
    /\ target_vars = <<>>
    /\ prep = NoPrep
    /\ action_code = <<>>
    /\ target_line = <<>>
    /\ setup_imports = NoImports
    /\ ResolverIdle
    /\ StripIdle
    /\ OutputIdle
    /\ SnapshotIdle /\ BuildIdle /\ source_path = NoneVal /\ CliIdle /\ ParseIdle
    /\ PythonIdle /\ IdIdle /\ MainIdle /\ RunIdle /\ NotebookIdle /\ RaceIdle
    /\ scribe_dir \in ScribeDirs
    /\ gitignore \in {{}, {"_20*-*"}, PatternsNeeded}
    /\ scribe_last = NoCommand
    /\ scribe_before = Began

NextScribe ==
    \/ CmdPrepare
    \/ EditStaging
    \/ CmdFinalize
    \/ FinalizeUnlink
    \/ CmdAbort

SpecScribe == InitScribe /\ [][NextScribe]_vars

\* The staging file holds a placeholder
Unfilled(f) ==
    HoldsText(f.content, TITLE_PLACEHOLDER) \/ HoldsText(f.content, BODY_PLACEHOLDER)

\* The log of some day is what it was with the entry of the staging file added
\* at its end, and the other logs are what they were
EntryAppended(f) ==
    \E d \in Dates :
        /\ scribe_dir.logs[d] # <<>>
        /\ LET log == scribe_dir.logs[d]
               last == log[Len(log)]
           IN /\ last.kind = "entry" /\ last.id = f.id
              /\ last.title = f.content.title /\ last.body = f.content.body
              /\ LET was == scribe_before.dir.logs[d]
                 IN IF was = <<>> THEN Len(log) = 2
                    ELSE SubSeq(log, 1, Len(log) - 1) = was
        /\ \A e \in Dates \ {d} : scribe_dir.logs[e] = scribe_before.dir.logs[e]

====
